---- MODULE Spec2Model ----
(***************************************************************************)
(* A model of repmgr.c, the command interpreter of repmgr: the cluster    *)
(* (each server's recovery state, reachability and version), the node     *)
(* registry repl_nodes, and the position of one running command with its  *)
(* local variables.  Each command is cut into steps at its calls to the   *)
(* servers and to external programs, so that the cluster can change       *)
(* between two steps as it can between two calls.                         *)
(***************************************************************************)
EXTENDS Integers, Sequences, FiniteSets, TLC

\* ------------------------------------------------------------------ bounds
\* Number of servers of the cluster.
NumNodes == 2
\* The discovery-attempt counter of STANDBY FOLLOW saturates here.
MaxDiscoveries == 3

Nodes == 1 .. NumNodes

\* Server version numbers the servers may run: one below the minimum,
\* 9.3.0, 9.4.0 and 9.4.1.
Versions == {90200, 90300, 90400, 90401}
\* One version of each major release among them.
MajorVersions == {90200, 90300, 90400}

\* --------------------------------------------------- constants of the code
NULL == 0
NO_UPSTREAM_NODE == -1
MIN_SUPPORTED_VERSION_NUM == 90300
promote_check_timeout == 60
promote_check_interval == 2

SUCCESS == "SUCCESS"
ERR_BAD_CONFIG == "ERR_BAD_CONFIG"
ERR_NO_RESTART == "ERR_NO_RESTART"
ERR_DB_CON == "ERR_DB_CON"
ERR_DB_QUERY == "ERR_DB_QUERY"
ERR_BAD_PASSWORD == "ERR_BAD_PASSWORD"
ERR_BAD_SSH == "ERR_BAD_SSH"

MASTER_REGISTER == "MASTER_REGISTER"
STANDBY_REGISTER == "STANDBY_REGISTER"
STANDBY_PROMOTE == "STANDBY_PROMOTE"
STANDBY_FOLLOW == "STANDBY_FOLLOW"
WITNESS_CREATE == "WITNESS_CREATE"
CLUSTER_CLEANUP == "CLUSTER_CLEANUP"

VARIABLES
    role,                 \* role[n]: "primary" or "standby", the server's recovery state
    up,                   \* up[n]: the server answers queries
    version,              \* version[n]: server_version_num of the server
    repl_nodes,           \* the node registry, a sequence of records in registry order
    schema_exists,        \* the repmgr schema of the cluster exists
    action,               \* the command being run
    options,              \* t_configuration_options: node, node_name, upstream_node, ...
    runtime_options,      \* t_runtime_options: host, masterport, username, force, ...
    pgpassword,           \* getenv("PGPASSWORD"): [set, value], set = FALSE for NULL
    pc,                   \* position of the command
    master_conn,          \* node the master connection is open to, or NULL
    retval,               \* last result of is_standby
    i,                    \* loop variable of the promotion poll
    promote_sucess,       \* (sic) local of do_standby_promote
    standby_version_num,
    master_version_num,
    exit_code,            \* exit status of the process once pc = "done"
    log_msg,              \* last error or notice logged by the command
    effects,              \* external actions performed, in order
    recovery_conf,        \* lines of recovery.conf in the data directory
    nprobes,              \* number of is_standby probes issued by the promotion poll
    seen,                 \* set of results these probes returned
    late_probes,          \* probes issued after one of them returned 0 (primary)
    discoveries,          \* calls of get_master_connection by STANDBY FOLLOW (saturating)
    obs,                  \* what the precondition checks of the command observed
    schema_objects,       \* objects of the repmgr schema created so far by create_schema
    witness_nodes,        \* repl_nodes of the witness server, its own copy
    repl_monitor,         \* the monitoring history: the ages in days of its rows
    writes,               \* statements of the command that changed a store, in order
    ncommands,            \* commands run so far on the cluster, this one included
    settings,             \* pg_settings of the upstream server the command connects to
    in_data_dir,          \* which of its configuration files lie in its data directory
    tablespaces,          \* the locations in its tablespace catalog
    replication_slots,    \* the replication slots that exist on it
    dest_state,           \* the destination directory: "missing", "empty", "occupied", "ready", "cluster", "partial"
    server_version_num,   \* local of do_standby_clone and do_check_upstream_config
    config_ok,            \* local of check_upstream_config
    config_file_copy_required,
    master_files,         \* master_config_file, master_hba_file, master_ident_file
    clone_r,              \* r of do_standby_clone: result of its last external call
    clone_retval,         \* retval of do_standby_clone, its exit code
    checks,               \* the checks check_upstream_config made, with their results
    steps,                \* the steps of STANDBY CLONE started, with their success
    suspended             \* a second invocation of the program, while it does not run

vars == << role, up, version, repl_nodes, schema_exists, action, options,
           runtime_options, pgpassword, pc, master_conn, retval, i,
           promote_sucess, standby_version_num, master_version_num, exit_code,
           log_msg, effects, recovery_conf, nprobes, seen, late_probes,
           discoveries, obs, schema_objects, witness_nodes, repl_monitor,
           writes, ncommands, settings, in_data_dir, tablespaces,
           replication_slots,
           dest_state, server_version_num, config_ok,
           config_file_copy_required, master_files, clone_r, clone_retval,
           checks,
           steps, suspended >>

\* What the command finds around it: the servers, and a second invocation.
cluster == << role, up, version, suspended >>
config == << action, options, runtime_options, pgpassword >>
locals == << master_conn, retval, i, promote_sucess, standby_version_num,
             master_version_num >>
pollHistory == << nprobes, seen, late_probes >>
stores == << schema_objects, witness_nodes, repl_monitor, writes, ncommands >>
upstreamServer == << settings, in_data_dir, tablespaces >>
cloneLocals == << server_version_num, config_ok, config_file_copy_required,
                 master_files, clone_r, clone_retval >>
\* What only STANDBY CLONE and the check of the upstream configuration use.
provisioning == << upstreamServer, replication_slots, dest_state, cloneLocals, checks, steps >>
\* What PROMOTE, FOLLOW and STANDBY REGISTER never write.
elsewhere == << schema_exists, stores, provisioning >>

\* No second invocation.
NoInvocation == << >>

\* The node the command runs on: options.conninfo points at it.
Me == options.node

\* ------------------------------------------------------ server interface
\* is_standby(conn): 1 in recovery, 0 not in recovery, -1 query failed.
is_standby(n) == IF ~up[n] THEN -1 ELSE IF role[n] = "standby" THEN 1 ELSE 0

\* get_server_version(conn, NULL): server_version_num, or -1 if the query failed.
get_server_version(n) == IF up[n] THEN version[n] ELSE -1

\* get_pg_setting(conn, "data_directory", data_dir): whether the query succeeded.
get_pg_setting(n) == up[n]

\* Index of the first record of reg whose server reports primary, 0 if none.
RECURSIVE FirstPrimaryFrom(_, _)
FirstPrimaryFrom(reg, k) ==
    IF k > Len(reg) THEN 0
    ELSE IF is_standby(reg[k].id) = 0 THEN k
    ELSE FirstPrimaryFrom(reg, k + 1)

get_master_connectionMut(reg) ==
    IF reg = << >> THEN NULL ELSE reg[1].id

\* get_master_connection(conn, cluster, NULL, NULL): probes the registered
\* nodes in registry order and returns a connection to the first that is
\* not in recovery, NULL if there is none.
get_master_connection(reg) ==
    LET k == FirstPrimaryFrom(reg, 1) IN IF k = 0 THEN NULL ELSE reg[k].id

\* The registered nodes that report primary right now.
ReportingPrimary(reg) ==
    { reg[k].id : k \in { j \in 1 .. Len(reg) : is_standby(reg[j].id) = 0 } }

\* PQhost, PQport, PQuser of a connection to node n.
PQhost(n) == IF n = 1 THEN "hostA" ELSE IF n = 2 THEN "hostB" ELSE "hostC"
PQport(n) == IF n = 1 THEN "5432" ELSE IF n = 2 THEN "5433" ELSE "5434"
PQuser(n) == IF n = 1 THEN "repmgr" ELSE "postgres"

\* check_server_version(conn, server_type, exit_on_error, ...): the value
\* returned when it returns; CheckServerVersionExits tells when it exits.
CheckServerVersionExits(n, exit_on_error) ==
    get_server_version(n) < MIN_SUPPORTED_VERSION_NUM /\ exit_on_error

check_server_version(n) ==
    IF get_server_version(n) < MIN_SUPPORTED_VERSION_NUM THEN -1
    ELSE get_server_version(n)

\* ------------------------------------------------------------ environment
NodeDown(n) ==
    /\ up[n]
    /\ up' = [up EXCEPT ![n] = FALSE]
    /\ UNCHANGED << role, version, suspended, repl_nodes, elsewhere, config, pc, locals,
                    exit_code, log_msg, effects, recovery_conf, pollHistory,
                    discoveries, obs >>

NodeUp(n) ==
    /\ ~up[n]
    /\ up' = [up EXCEPT ![n] = TRUE]
    /\ UNCHANGED << role, version, suspended, repl_nodes, elsewhere, config, pc, locals,
                    exit_code, log_msg, effects, recovery_conf, pollHistory,
                    discoveries, obs >>

\* A standby leaves recovery: another node when its operator promotes it,
\* the command's own node only once "pg_ctl promote" was run on it.
ServerPromoted(n) ==
    /\ role[n] = "standby"
    /\ n = Me => \E k \in 1 .. Len(effects) : effects[k] = "promote"
    /\ role' = [role EXCEPT ![n] = "primary"]
    /\ UNCHANGED << up, version, suspended, repl_nodes, elsewhere, config, pc, locals,
                    exit_code, log_msg, effects, recovery_conf, pollHistory,
                    discoveries, obs >>

\* exit(code) after logging msg.
Exit(code, msg) ==
    /\ pc' = "done"
    /\ exit_code' = code
    /\ log_msg' = msg

\* ------------------------------------------------------- initial states
\* Registries: the registered nodes in increasing id order, any subset.
RECURSIVE SeqOfSet(_)
SeqOfSet(S) ==
    IF S = {} THEN << >>
    ELSE LET m == CHOOSE x \in S : \A y \in S : x <= y
         IN << m >> \o SeqOfSet(S \ {m})

\* The slot_name of a record without a slot (SQL NULL).
NoSlot == << >>

NodeRecord(n, type, upstream, slot) ==
    [id |-> n, type |-> type, upstream_node_id |-> upstream, slot_name |-> slot]

InitRegistry(S) ==
    LET ids == SeqOfSet(S)
    IN [k \in 1 .. Len(ids) |->
          NodeRecord(ids[k], role[ids[k]], NULL, NoSlot)]

InitCommon ==
    /\ role \in [Nodes -> {"primary", "standby"}]
    /\ suspended = NoInvocation
    /\ up \in [Nodes -> BOOLEAN]
    /\ \E S \in SUBSET Nodes : repl_nodes = InitRegistry(S)
    /\ pc = "start"
    /\ master_conn = NULL
    /\ retval = 1
    /\ i = 0
    /\ promote_sucess = FALSE
    /\ standby_version_num = 0
    /\ master_version_num = 0
    /\ exit_code = "running"
    /\ log_msg = "none"
    /\ effects = << >>
    /\ recovery_conf = << >>
    /\ nprobes = 0
    /\ seen = {}
    /\ late_probes = 0
    /\ discoveries = 0
    /\ obs = [node |-> 1, master |-> NULL, candidate |-> 1, primaries |-> {},
              checked |-> {}, schema |-> FALSE]

\* The objects create_schema creates after the schema itself: two functions,
\* repl_nodes, repl_monitor, the view repl_status, its index, three functions.
NumSchemaObjects == 9

\* The stores as the commands that do not write them find them: the schema,
\* if it exists, is complete, there is no witness and no history.
IdleStores ==
    /\ schema_objects = IF schema_exists THEN NumSchemaObjects ELSE 0
    /\ witness_nodes = << >>
    /\ repl_monitor = {}
    /\ writes = << >>
    /\ ncommands = 1

\* The files of the server that may lie outside its data directory.
ConfigFiles == << "config_file", "hba_file", "ident_file" >>

\* No upstream server is looked at and nothing is cloned.
IdleProvisioning ==
    /\ settings = [wal_level |-> "hot_standby", max_replication_slots |-> 1,
                   wal_keep_segments |-> 1, archive_mode |-> "on",
                   hot_standby |-> "on", max_wal_senders |-> 1]
    /\ in_data_dir = [f \in { ConfigFiles[k] : k \in 1 .. 3 } |-> TRUE]
    /\ tablespaces = {}
    /\ replication_slots = {}
    /\ dest_state = "missing"
    /\ server_version_num = 0
    /\ config_ok = TRUE
    /\ config_file_copy_required = FALSE
    /\ master_files = [f \in { ConfigFiles[k] : k \in 1 .. 3 } |-> ""]
    /\ clone_r = 0
    /\ clone_retval = SUCCESS
    /\ checks = << >>
    /\ steps = << >>

\* The options of a command that check_parameters_for_action lets pass for
\* REGISTER, PROMOTE and FOLLOW: no connection parameter on the command line.
NoConnParams(force, wait) ==
    [host |-> "", masterport |-> "", username |-> "", force |-> force,
     wait_for_master |-> wait, min_recovery_apply_delay |-> ""]

\* ------------------------------------------------------- STANDBY PROMOTE
\* The test that refuses the command after is_standby (retval is its result).
PromoteRefusedByMasterMut(conn) == FALSE

\* if (old_master_conn != NULL)
PromoteRefusedByMaster(conn) == conn # NULL

PromoteNotOnStandbyMut(r) == r = 0

PromoteNotOnStandby(r) == r = 0 \/ r = -1

\* The loop condition of the promotion poll.
PromotePollContinuesMut(k) == k <= promote_check_timeout

PromotePollContinues(k) == k < promote_check_timeout

\* The test that ends the poll with success: if(!retval).
PromoteProbeConfirmsMut(r) == r # 1

PromoteProbeConfirms(r) == r = 0

\* What the command does after a poll that did not confirm the promotion:
\* the message logged, the exit status, the external actions it adds.
PromoteFailureOutcomeMut(r) ==
    [msg |-> IF r = 1 THEN "still_standby" ELSE "connection_lost",
     code |-> ERR_NO_RESTART, more |-> << >>]

PromoteFailureOutcome(r) ==
    [msg |-> IF r = 1 THEN "still_standby" ELSE "connection_lost",
     code |-> SUCCESS, more |-> << >>]

\* establish_db_connection(options.conninfo, true), then
\* check_server_version(conn, "standby", true, NULL).
PromoteConnect ==
    /\ action = STANDBY_PROMOTE /\ pc = "start"
    /\ IF ~up[Me] THEN Exit(ERR_DB_CON, "connection_failed")
       ELSE IF CheckServerVersionExits(Me, TRUE)
            THEN Exit(ERR_BAD_CONFIG, "version_too_old")
       ELSE /\ pc' = "promote_is_standby"
            /\ UNCHANGED << exit_code, log_msg >>
    /\ UNCHANGED << cluster, repl_nodes, elsewhere, config, locals, effects,
                    recovery_conf, pollHistory, discoveries, obs >>

\* retval = is_standby(conn) and the test that follows it.
PromoteCheckStandby ==
    /\ action = STANDBY_PROMOTE /\ pc = "promote_is_standby"
    /\ retval' = is_standby(Me)
    /\ obs' = [obs EXCEPT !.node = is_standby(Me), !.checked = @ \cup {"node"}]
    /\ IF PromoteNotOnStandby(retval')
       THEN Exit(ERR_BAD_CONFIG,
                 IF retval' = 0 THEN "not_a_standby" ELSE "connection_lost")
       ELSE /\ pc' = "promote_check_master"
            /\ UNCHANGED << exit_code, log_msg >>
    /\ UNCHANGED << cluster, repl_nodes, elsewhere, config, master_conn, i,
                    promote_sucess, standby_version_num, master_version_num,
                    effects, recovery_conf, pollHistory, discoveries >>

\* old_master_conn = get_master_connection(...): refused if there is a master.
PromoteCheckMaster ==
    /\ action = STANDBY_PROMOTE /\ pc = "promote_check_master"
    /\ master_conn' = get_master_connection(repl_nodes)
    /\ obs' = [obs EXCEPT !.master = master_conn',
                          !.primaries = ReportingPrimary(repl_nodes),
                          !.checked = @ \cup {"master"}]
    /\ IF PromoteRefusedByMaster(master_conn')
       THEN Exit(ERR_BAD_CONFIG, "master_exists")
       ELSE /\ pc' = "promote_data_dir"
            /\ UNCHANGED << exit_code, log_msg >>
    /\ UNCHANGED << cluster, repl_nodes, elsewhere, config, retval, i,
                    promote_sucess, standby_version_num, master_version_num,
                    effects, recovery_conf, pollHistory, discoveries >>

\* success = get_pg_setting(conn, "data_directory", data_dir).
PromoteGetDataDir ==
    /\ action = STANDBY_PROMOTE /\ pc = "promote_data_dir"
    /\ IF ~get_pg_setting(Me)
       THEN Exit(ERR_BAD_CONFIG, "no_data_directory")
       ELSE /\ pc' = "promote_pg_ctl"
            /\ UNCHANGED << exit_code, log_msg >>
    /\ UNCHANGED << cluster, repl_nodes, elsewhere, config, locals, effects,
                    recovery_conf, pollHistory, discoveries, obs >>

\* r = system("pg_ctl -D data_dir promote"); r is the tool's exit status.
PromotePgCtl(r) ==
    /\ action = STANDBY_PROMOTE /\ pc = "promote_pg_ctl"
    /\ effects' = Append(effects, "promote")
    /\ IF r # 0
       THEN Exit(ERR_NO_RESTART, "unable_to_promote")
       ELSE /\ pc' = "promote_reconnect"
            /\ UNCHANGED << exit_code, log_msg >>
    /\ UNCHANGED << cluster, repl_nodes, elsewhere, config, locals,
                    recovery_conf, pollHistory, discoveries, obs >>

\* conn = establish_db_connection(options.conninfo, true); i = 0.
PromoteReconnect ==
    /\ action = STANDBY_PROMOTE /\ pc = "promote_reconnect"
    /\ IF ~up[Me]
       THEN /\ Exit(ERR_DB_CON, "connection_failed")
            /\ i' = i
       ELSE /\ i' = 0
            /\ pc' = IF PromotePollContinues(0) THEN "promote_poll"
                     ELSE "promote_report"
            /\ UNCHANGED << exit_code, log_msg >>
    /\ UNCHANGED << cluster, repl_nodes, elsewhere, config, master_conn,
                    retval, promote_sucess, standby_version_num,
                    master_version_num, effects, recovery_conf, pollHistory,
                    discoveries, obs >>

\* One iteration of the poll: probe, then break or sleep and step i.
PromotePoll ==
    /\ action = STANDBY_PROMOTE /\ pc = "promote_poll"
    /\ retval' = is_standby(Me)
    /\ nprobes' = nprobes + 1
    /\ seen' = seen \cup {retval'}
    /\ late_probes' = IF 0 \in seen THEN late_probes + 1 ELSE late_probes
    /\ IF PromoteProbeConfirms(retval')
       THEN /\ promote_sucess' = TRUE
            /\ i' = i
            /\ pc' = "promote_report"
       ELSE /\ promote_sucess' = promote_sucess
            /\ i' = i + promote_check_interval
            /\ pc' = IF PromotePollContinues(i') THEN "promote_poll"
                     ELSE "promote_report"
    /\ UNCHANGED << cluster, repl_nodes, elsewhere, config, master_conn,
                    standby_version_num, master_version_num, exit_code, log_msg,
                    effects, recovery_conf, discoveries, obs >>

PromoteReportMut ==
    /\ action = STANDBY_PROMOTE /\ pc = "promote_report"
    /\ IF promote_sucess = FALSE
       THEN /\ Exit(PromoteFailureOutcome(retval).code,
                    PromoteFailureOutcome(retval).msg)
            /\ effects' = effects \o PromoteFailureOutcome(retval).more
            /\ UNCHANGED repl_nodes
       ELSE /\ Exit(SUCCESS, "promote_successful")
            /\ effects' = effects
            /\ repl_nodes' =
                  [k \in DOMAIN repl_nodes |->
                      IF repl_nodes[k].id = Me
                      THEN [repl_nodes[k] EXCEPT !.type = "primary"]
                      ELSE repl_nodes[k]]
    /\ UNCHANGED << cluster, elsewhere, config, locals,
                    recovery_conf, pollHistory, discoveries, obs >>

\* The report after the poll, PQfinish and return; main then returns 0.
PromoteReport ==
    /\ action = STANDBY_PROMOTE /\ pc = "promote_report"
    /\ IF promote_sucess = FALSE
       THEN /\ Exit(PromoteFailureOutcome(retval).code,
                    PromoteFailureOutcome(retval).msg)
            /\ effects' = effects \o PromoteFailureOutcome(retval).more
       ELSE /\ Exit(SUCCESS, "promote_successful")
            /\ effects' = effects
    /\ UNCHANGED << cluster, repl_nodes, elsewhere, config, locals,
                    recovery_conf, pollHistory, discoveries, obs >>

InitPromote ==
    /\ InitCommon
    /\ action = STANDBY_PROMOTE
    /\ schema_exists = TRUE
    /\ IdleStores
    /\ IdleProvisioning
    /\ \E v \in Versions : version = [n \in Nodes |-> v]
    /\ \E n \in Nodes :
          options = [node |-> n, node_name |-> "node", upstream_node |-> NO_UPSTREAM_NODE,
                     use_replication_slots |-> FALSE]
    /\ runtime_options = NoConnParams(FALSE, FALSE)
    /\ pgpassword = [set |-> FALSE, value |-> ""]

NextPromote ==
    \/ PromoteConnect
    \/ PromoteCheckStandby
    \/ PromoteCheckMaster
    \/ PromoteGetDataDir
    \/ \E r \in {0, 1} : PromotePgCtl(r)
    \/ PromoteReconnect
    \/ PromotePoll
    \/ PromoteReport
    \/ \E n \in Nodes : NodeDown(n)
    \/ \E n \in Nodes : NodeUp(n)
    \/ \E n \in Nodes : ServerPromoted(n)

SpecPromote == InitPromote /\ [][NextPromote]_vars

\* ------------------------------------------------- claims: STANDBY PROMOTE
PromoteInvoked == \E k \in 1 .. Len(effects) : effects[k] = "promote"

PromoteRefused == pc = "done" /\ exit_code = ERR_BAD_CONFIG /\ ~PromoteInvoked

\* C1: the promote action is invoked only if the node reported standby and
\* discovery found no registered node reporting primary; a node reporting
\* primary or unreachable, or any registered node reporting primary, makes
\* the command end with an error without the promote action being invoked.
C1_PromotePreconditions ==
    action = STANDBY_PROMOTE =>
        /\ PromoteInvoked =>
              /\ obs.checked = {"node", "master"}
              /\ obs.node = 1
              /\ obs.primaries = {}
        /\ ("node" \in obs.checked /\ obs.node \in {0, -1}) => PromoteRefused
        /\ ("master" \in obs.checked /\ obs.primaries # {}) => PromoteRefused

C1_Witness ==
    /\ action = STANDBY_PROMOTE
    /\ PromoteInvoked
    /\ obs.node = 1 /\ obs.primaries = {}
    /\ \E k \in 1 .. Len(repl_nodes) : repl_nodes[k].id # Me

MaxProbes == promote_check_timeout \div promote_check_interval

\* C2: the poll issues at most timeout / interval probes, each iteration
\* brings it one interval closer to the timeout, and a node reporting
\* standby at every probe ends with the still-a-standby report.
C2_PollBounded ==
    action = STANDBY_PROMOTE =>
        /\ nprobes <= MaxProbes
        /\ pc = "promote_poll" =>
              i = nprobes * promote_check_interval /\ i < promote_check_timeout
        /\ (pc = "done" /\ seen = {1}) =>
              /\ nprobes = MaxProbes
              /\ log_msg = "still_standby"
              /\ exit_code = SUCCESS

C2_Witness ==
    /\ action = STANDBY_PROMOTE /\ pc = "done"
    /\ seen = {1} /\ nprobes = MaxProbes /\ log_msg = "still_standby"

\* C3: no probe is issued after one that observed primary, success is
\* reported exactly when some probe observed primary.
C3_FirstPrimaryEndsPoll ==
    action = STANDBY_PROMOTE =>
        /\ late_probes = 0
        /\ 0 \in seen => promote_sucess /\ pc \in {"promote_report", "done"}
        /\ (pc = "done" /\ 0 \in seen) =>
              log_msg = "promote_successful" /\ exit_code = SUCCESS
        /\ log_msg = "promote_successful" => 0 \in seen

\* Success at a later probe than the first, the registered primary stopped.
C3_Witness ==
    /\ action = STANDBY_PROMOTE /\ pc = "done"
    /\ log_msg = "promote_successful"
    /\ nprobes > 1
    /\ \E k \in 1 .. Len(repl_nodes) :
          /\ repl_nodes[k].type = "primary"
          /\ repl_nodes[k].id # Me
          /\ ~up[repl_nodes[k].id]

PollEndedUnconfirmed ==
    action = STANDBY_PROMOTE /\ pc = "done" /\ nprobes > 0 /\ ~promote_sucess

\* C4: an unconfirmed poll in which some probe observed unreachable reports
\* the connection-lost outcome; the still-a-standby outcome is reported
\* only when every probe observed standby.
C4_UnreachableNeverTimeout ==
    PollEndedUnconfirmed =>
        /\ -1 \in seen => log_msg = "connection_lost"
        /\ log_msg = "still_standby" => seen = {1}

\* C5: a poll that ends without a primary observation is not fatal: the
\* command returns normally, having run the promote action once and nothing
\* else, and STANDBY PROMOTE never writes the registry.
C5_Inv ==
    PollEndedUnconfirmed =>
        /\ log_msg \in {"still_standby", "connection_lost"}
        /\ exit_code = SUCCESS
        /\ effects = << "promote" >>
        /\ recovery_conf = << >>

C5_UnconfirmedIsNotFatal ==
    /\ [](C5_Inv)
    /\ [][action = STANDBY_PROMOTE => repl_nodes' = repl_nodes]_vars

C5_Witness ==
    PollEndedUnconfirmed /\ log_msg = "connection_lost" /\ exit_code = SUCCESS

\* ----------------------------------------------------- recovery.conf
require_password == FALSE

RECOVERY_DEFAULT_PORT == "5432"

\* repmgr_slot_name as main initialises it: "repmgr_slot_<node>".
repmgr_slot_name(opts) == << "repmgr_slot_", opts.node >>

Field(k, v) == << k, v >>

write_primary_conninfoMut(ro, opts, password) ==
    << Field("port", IF ro.masterport # "" THEN ro.masterport
                     ELSE RECOVERY_DEFAULT_PORT) >>
    \o (IF ro.host # "" THEN << Field("host", ro.host) >> ELSE << >>)
    \o (IF ro.username # "" THEN << Field("user", ro.username) >> ELSE << >>)
    \o (IF opts.conninfo_password # ""
        THEN << Field("password", opts.conninfo_password) >>
        ELSE IF password.set THEN << Field("password", password.value) >>
        ELSE << >>)
    \o (IF opts.node_name # "" THEN << Field("application_name", opts.node_name) >>
        ELSE << >>)

\* write_primary_conninfo(line): the fields of the primary_conninfo value,
\* in the order they are printed.
write_primary_conninfo(ro, opts, password) ==
    << Field("port", IF ro.masterport # "" THEN ro.masterport
                     ELSE RECOVERY_DEFAULT_PORT) >>
    \o (IF ro.host # "" THEN << Field("host", ro.host) >> ELSE << >>)
    \o (IF ro.username # "" THEN << Field("user", ro.username) >> ELSE << >>)
    \o (IF password.set THEN << Field("password", password.value) >> ELSE << >>)
    \o (IF opts.node_name # "" THEN << Field("application_name", opts.node_name) >>
        ELSE << >>)

\* write_primary_conninfo exits when a password is required and not set.
PrimaryConninfoExits(password) == ~password.set /\ require_password

Line(k, v, f) == [key |-> k, value |-> v, fields |-> f]

RecoveryFileLinesMut(ro, opts, password) ==
    << Line("standby_mode", "'on'", << >>),
       Line("primary_conninfo", "", write_primary_conninfo(ro, opts, password)),
       Line("recovery_target_timeline", "'latest'", << >>) >>
    \o (IF opts.use_replication_slots
        THEN << Line("primary_slot_name", "", repmgr_slot_name(opts)) >>
        ELSE << >>)
    \o (IF ro.min_recovery_apply_delay # ""
        THEN << Line("min_recovery_apply_delay", ro.min_recovery_apply_delay, << >>) >>
        ELSE << >>)

\* The lines create_recovery_file writes, in order, when no write fails.
RecoveryFileLines(ro, opts, password) ==
    << Line("standby_mode", "'on'", << >>),
       Line("primary_conninfo", "", write_primary_conninfo(ro, opts, password)),
       Line("recovery_target_timeline", "'latest'", << >>) >>
    \o (IF ro.min_recovery_apply_delay # ""
        THEN << Line("min_recovery_apply_delay", ro.min_recovery_apply_delay, << >>) >>
        ELSE << >>)
    \o (IF opts.use_replication_slots
        THEN << Line("primary_slot_name", "", repmgr_slot_name(opts)) >>
        ELSE << >>)

\* ------------------------------------------------------- STANDBY FOLLOW
\* The condition of the discovery loop: do { ... } while (...).
FollowLoopAgainMut(mc, wait) == mc = NULL

FollowLoopAgain(mc, wait) == mc = NULL /\ wait

\* The connection whose version is read as the master's version.
FollowMasterVersionConn(c, mc) == c

\* The connection whose host, port and user go to the recovery file.
FollowCaptureConnMut(c, mc) == c

FollowCaptureConn(c, mc) == mc

\* Exit status when no master is discovered, and when the restart fails.
FollowNoMasterCode == ERR_BAD_CONFIG

FollowRestartFailedCodeMut == ERR_BAD_CONFIG

FollowRestartFailedCode == ERR_NO_RESTART

\* establish_db_connection(options.conninfo, true), then
\* standby_version_num = check_server_version(conn, "standby", true, ...).
FollowConnect ==
    /\ action = STANDBY_FOLLOW /\ pc = "start"
    /\ IF ~up[Me]
       THEN Exit(ERR_DB_CON, "connection_failed") /\ UNCHANGED standby_version_num
       ELSE IF CheckServerVersionExits(Me, TRUE)
            THEN Exit(ERR_BAD_CONFIG, "version_too_old")
                 /\ UNCHANGED standby_version_num
       ELSE /\ standby_version_num' = check_server_version(Me)
            /\ pc' = "follow_is_standby"
            /\ UNCHANGED << exit_code, log_msg >>
    /\ UNCHANGED << cluster, repl_nodes, elsewhere, config, master_conn,
                    retval, i, promote_sucess, master_version_num, effects,
                    recovery_conf, pollHistory, discoveries, obs >>

\* retval = is_standby(conn): the command must run on a standby.
FollowCheckStandby ==
    /\ action = STANDBY_FOLLOW /\ pc = "follow_is_standby"
    /\ retval' = is_standby(Me)
    /\ obs' = [obs EXCEPT !.node = is_standby(Me), !.checked = @ \cup {"node"}]
    /\ IF retval' = 0 \/ retval' = -1
       THEN Exit(ERR_BAD_CONFIG,
                 IF retval' = 0 THEN "not_a_standby" ELSE "connection_lost")
       ELSE /\ pc' = "follow_pgup"
            /\ UNCHANGED << exit_code, log_msg >>
    /\ UNCHANGED << cluster, repl_nodes, elsewhere, config, master_conn, i,
                    promote_sucess, standby_version_num, master_version_num,
                    effects, recovery_conf, pollHistory, discoveries >>

\* Top of the loop body: is_pgup(conn, options.master_response_timeout).
FollowPgUp ==
    /\ action = STANDBY_FOLLOW /\ pc = "follow_pgup"
    /\ pc' = IF up[Me] THEN "follow_locate" ELSE "follow_reconnect"
    /\ UNCHANGED << cluster, repl_nodes, elsewhere, config, locals, exit_code,
                    log_msg, effects, recovery_conf, pollHistory, discoveries, obs >>

\* conn = establish_db_connection(options.conninfo, true) inside the loop.
FollowReconnect ==
    /\ action = STANDBY_FOLLOW /\ pc = "follow_reconnect"
    /\ IF ~up[Me] THEN Exit(ERR_DB_CON, "connection_failed")
       ELSE pc' = "follow_locate" /\ UNCHANGED << exit_code, log_msg >>
    /\ UNCHANGED << cluster, repl_nodes, elsewhere, config, locals, effects,
                    recovery_conf, pollHistory, discoveries, obs >>

\* master_conn = get_master_connection(...), the loop test, and the test
\* after the loop.
FollowLocate ==
    /\ action = STANDBY_FOLLOW /\ pc = "follow_locate"
    /\ master_conn' = get_master_connection(repl_nodes)
    /\ discoveries' = IF discoveries < MaxDiscoveries THEN discoveries + 1
                      ELSE discoveries
    /\ obs' = [obs EXCEPT !.master = master_conn',
                          !.primaries = ReportingPrimary(repl_nodes),
                          !.checked = @ \cup {"master"}]
    /\ IF FollowLoopAgain(master_conn', runtime_options.wait_for_master)
       THEN pc' = "follow_pgup" /\ UNCHANGED << exit_code, log_msg >>
       ELSE IF master_conn' = NULL
            THEN Exit(FollowNoMasterCode, "no_master")
       ELSE pc' = "follow_check_master" /\ UNCHANGED << exit_code, log_msg >>
    /\ UNCHANGED << cluster, repl_nodes, elsewhere, config, retval, i,
                    promote_sucess, standby_version_num, master_version_num,
                    effects, recovery_conf, pollHistory >>

\* retval = is_standby(master_conn): the node to follow must be a master.
FollowCheckMaster ==
    /\ action = STANDBY_FOLLOW /\ pc = "follow_check_master"
    /\ retval' = is_standby(master_conn)
    /\ obs' = [obs EXCEPT !.candidate = is_standby(master_conn),
                          !.checked = @ \cup {"candidate"}]
    /\ IF retval' # 0
       THEN Exit(ERR_BAD_CONFIG,
                 IF retval' = 1 THEN "not_a_master" ELSE "connection_lost")
       ELSE pc' = "follow_versions" /\ UNCHANGED << exit_code, log_msg >>
    /\ UNCHANGED << cluster, repl_nodes, elsewhere, config, master_conn, i,
                    promote_sucess, standby_version_num, master_version_num,
                    effects, recovery_conf, pollHistory, discoveries >>

\* master_version_num = check_server_version(conn, "master", false, ...)
\* and the comparison of the two versions divided by 100.
FollowCheckVersions ==
    /\ action = STANDBY_FOLLOW /\ pc = "follow_versions"
    /\ master_version_num' =
           check_server_version(FollowMasterVersionConn(Me, master_conn))
    /\ IF master_version_num' < 0
       THEN Exit(ERR_BAD_CONFIG, "version_too_old")
       ELSE IF (master_version_num' \div 100) # (standby_version_num \div 100)
            THEN Exit(ERR_BAD_CONFIG, "version_mismatch")
       ELSE pc' = "follow_capture" /\ UNCHANGED << exit_code, log_msg >>
    /\ UNCHANGED << cluster, repl_nodes, elsewhere, config, master_conn,
                    retval, i, promote_sucess, standby_version_num, effects,
                    recovery_conf, pollHistory, discoveries, obs >>

\* Copy host, port and user out of master_conn, close it, and read the
\* standby's data directory.
FollowCapture ==
    /\ action = STANDBY_FOLLOW /\ pc = "follow_capture"
    /\ runtime_options' =
          [runtime_options EXCEPT
              !.host = PQhost(FollowCaptureConn(Me, master_conn)),
              !.masterport = PQport(FollowCaptureConn(Me, master_conn)),
              !.username = PQuser(FollowCaptureConn(Me, master_conn))]
    /\ IF ~get_pg_setting(Me)
       THEN Exit(ERR_BAD_CONFIG, "no_data_directory")
       ELSE pc' = "follow_write" /\ UNCHANGED << exit_code, log_msg >>
    /\ UNCHANGED << cluster, repl_nodes, elsewhere, action, options,
                    pgpassword, locals, effects, recovery_conf, pollHistory,
                    discoveries, obs >>

\* create_recovery_file(data_dir).  written = 0: fopen failed; written = k
\* below the number of lines: the write of line k + 1 failed; otherwise the
\* file is complete.
FollowWriteRecovery(written) ==
    /\ action = STANDBY_FOLLOW /\ pc = "follow_write"
    /\ LET lines == RecoveryFileLines(runtime_options, options, pgpassword)
       IN /\ written \in 0 .. Len(lines) + 1
          /\ IF written = 0
             THEN /\ Exit(ERR_BAD_CONFIG, "recovery_write_failed")
                  /\ UNCHANGED << effects, recovery_conf >>
             ELSE IF written >= 2 /\ PrimaryConninfoExits(pgpassword)
                  THEN /\ Exit(ERR_BAD_PASSWORD, "password_required")
                       /\ effects' = Append(effects, "write_recovery")
                       /\ recovery_conf' = SubSeq(lines, 1, 1)
             ELSE IF written <= Len(lines)
                  THEN /\ Exit(ERR_BAD_CONFIG, "recovery_write_failed")
                       /\ effects' = Append(effects, "write_recovery")
                       /\ recovery_conf' = SubSeq(lines, 1, written - 1)
             ELSE /\ pc' = "follow_restart"
                  /\ effects' = Append(effects, "write_recovery")
                  /\ recovery_conf' = lines
                  /\ UNCHANGED << exit_code, log_msg >>
    /\ UNCHANGED << cluster, repl_nodes, elsewhere, config, locals,
                    pollHistory, discoveries, obs >>

\* r = system("pg_ctl ... -w -D data_dir -m fast restart").
FollowRestart(r) ==
    /\ action = STANDBY_FOLLOW /\ pc = "follow_restart"
    /\ effects' = Append(effects, "restart")
    /\ IF r # 0 THEN Exit(FollowRestartFailedCode, "cant_restart")
       ELSE Exit(SUCCESS, "follow_done")
    /\ UNCHANGED << cluster, repl_nodes, elsewhere, config, locals,
                    recovery_conf, pollHistory, discoveries, obs >>

FollowStep ==
    \/ FollowConnect
    \/ FollowCheckStandby
    \/ FollowPgUp
    \/ FollowReconnect
    \/ FollowLocate
    \/ FollowCheckMaster
    \/ FollowCheckVersions
    \/ FollowCapture
    \/ \E w \in 0 .. Len(RecoveryFileLines(runtime_options, options, pgpassword)) + 1 :
          FollowWriteRecovery(w)
    \/ \E r \in {0, 1} : FollowRestart(r)

\* The version of the command's node and the version the other nodes run.
InitVersions(V) ==
    \E v1, v2 \in V :
        version = [n \in Nodes |-> IF n = Me THEN v1 ELSE v2]

\* Two configurations: nothing optional set, or password, apply delay and
\* replication slots all set.
InitRecoveryOptions(wait) ==
    \E b \in BOOLEAN :
        /\ pgpassword = [set |-> b, value |-> IF b THEN "secret" ELSE ""]
        /\ runtime_options =
              [NoConnParams(FALSE, wait) EXCEPT
                  !.min_recovery_apply_delay = IF b THEN "5min" ELSE ""]
        /\ \E n \in Nodes :
              options = [node |-> n,
                         node_name |-> IF b THEN "standby" ELSE "",
                         upstream_node |-> NO_UPSTREAM_NODE,
                         use_replication_slots |-> b]

InitFollow ==
    /\ InitCommon
    /\ action = STANDBY_FOLLOW
    /\ schema_exists = TRUE
    /\ IdleStores
    /\ IdleProvisioning
    /\ \E wait \in BOOLEAN : InitRecoveryOptions(wait)
    /\ InitVersions(MajorVersions)

NextFollow ==
    \/ FollowStep
    \/ \E n \in Nodes : NodeDown(n)
    \/ \E n \in Nodes : NodeUp(n)
    \/ \E n \in Nodes : ServerPromoted(n)

SpecFollow == InitFollow /\ [][NextFollow]_vars

\* The discovery loop alone: every server runs the same supported version
\* and nothing optional is configured, so that the command gets past its
\* version checks whatever the cluster does.
InitFollowDiscovery ==
    /\ InitFollow
    /\ \A n \in Nodes : version[n] = 90400
    /\ ~pgpassword.set

\* The command is a running process: it takes its next step.
SpecFollowFair ==
    InitFollowDiscovery /\ [][NextFollow]_vars /\ WF_vars(FollowStep)

\* -------------------------------------------------- claims: STANDBY FOLLOW
InDiscoveryLoop ==
    action = STANDBY_FOLLOW
    /\ pc \in {"follow_pgup", "follow_reconnect", "follow_locate"}

Discovered == "master" \in obs.checked

Discoverable == get_master_connection(repl_nodes) # NULL

Did(e) == \E k \in 1 .. Len(effects) : effects[k] = e

C6_Inv ==
    action = STANDBY_FOLLOW =>
        /\ (~runtime_options.wait_for_master /\ Discovered) =>
              discoveries = 1 /\ ~InDiscoveryLoop
        /\ log_msg = "no_master" =>
              /\ ~runtime_options.wait_for_master
              /\ obs.master = NULL /\ obs.primaries = {}
              /\ pc = "done" /\ exit_code = ERR_BAD_CONFIG
              /\ effects = << >> /\ recovery_conf = << >>
        /\ (runtime_options.wait_for_master /\ Discovered /\ obs.master = NULL) =>
              \/ InDiscoveryLoop
              \/ pc = "done" /\ exit_code = ERR_DB_CON
        /\ (Discovered /\ obs.master = NULL /\ pc = "done") => effects = << >>

\* C6: without the wait flag discovery is attempted once, and no master
\* found ends the command with an error before any rewrite or restart; with
\* the wait flag the command never ends with the no-master error and stays
\* in the discovery loop while none is found (it leaves it otherwise only
\* when its own node cannot be reached); if from some point on a master is
\* discoverable, the command leaves the loop for good.
C6_FollowDiscovery ==
    /\ [](C6_Inv)
    /\ (<>[](Discoverable)) => (<>[](~InDiscoveryLoop))

\* A master found at the second attempt or later, with the wait flag.
C6_Witness ==
    /\ action = STANDBY_FOLLOW
    /\ runtime_options.wait_for_master
    /\ discoveries >= 2
    /\ pc = "follow_check_master"

\* C7: the recovery configuration is rewritten and the service restarted
\* only if the node reported standby, the candidate reported primary, and
\* the candidate's and the standby's versions agree after division by 100.
C7_FollowOnlyCompatible ==
    (action = STANDBY_FOLLOW /\ effects # << >>) =>
        /\ obs.node = 1
        /\ {"node", "master", "candidate"} \subseteq obs.checked
        /\ obs.candidate = 0
        /\ master_conn # NULL
        /\ (version[master_conn] \div 100) = (version[Me] \div 100)

ConninfoOf(lines) == lines[2].fields

\* C9: the restart is issued only after the complete recovery file was
\* written, whose conninfo carries the port, host and user of the
\* connection to the discovered master; a failed write ends the command
\* without a restart.
C9_RewriteThenRestart ==
    action = STANDBY_FOLLOW =>
        /\ Did("restart") =>
              /\ effects = << "write_recovery", "restart" >>
              /\ recovery_conf =
                    RecoveryFileLines(runtime_options, options, pgpassword)
              /\ ConninfoOf(recovery_conf)[1] = Field("port", PQport(master_conn))
              /\ ConninfoOf(recovery_conf)[2] = Field("host", PQhost(master_conn))
              /\ ConninfoOf(recovery_conf)[3] = Field("user", PQuser(master_conn))
        /\ log_msg = "recovery_write_failed" =>
              /\ pc = "done" /\ exit_code = ERR_BAD_CONFIG
              /\ ~Did("restart")
        /\ pc = "follow_restart" =>
              recovery_conf = RecoveryFileLines(runtime_options, options, pgpassword)

C9_Witness ==
    /\ action = STANDBY_FOLLOW /\ pc = "done" /\ exit_code = SUCCESS
    /\ effects = << "write_recovery", "restart" >>
    /\ master_conn # NULL /\ master_conn # Me
    /\ ConninfoOf(recovery_conf)[2] = Field("host", PQhost(master_conn))

\* C10: a failed restart ends the command with an error status that is not
\* the status of a failed discovery.
C10_RestartFailureDistinct ==
    (action = STANDBY_FOLLOW /\ pc = "done") =>
        /\ log_msg = "cant_restart" =>
              /\ exit_code # SUCCESS
              /\ exit_code # FollowNoMasterCode
        /\ log_msg = "no_master" =>
              /\ exit_code # SUCCESS
              /\ exit_code = FollowNoMasterCode
              /\ ~Did("restart")

C10_Witness ==
    /\ action = STANDBY_FOLLOW /\ pc = "done"
    /\ log_msg = "cant_restart"
    /\ effects = << "write_recovery", "restart" >>

\* ---------------------------------------------------------- node registry
NODE_NOT_FOUND == -1

RegisteredIds(reg) == { reg[k].id : k \in 1 .. Len(reg) }

\* check_cluster_schema(conn).
check_cluster_schema == schema_exists

\* get_primary_node_id(conn, cluster_name): the id of the record of type
\* primary, NODE_NOT_FOUND if there is none.
get_primary_node_id(reg) ==
    LET ks == { k \in 1 .. Len(reg) : reg[k].type = "primary" }
    IN IF ks = {} THEN NODE_NOT_FOUND
       ELSE reg[CHOOSE k \in ks : \A j \in ks : k <= j].id

\* A statement that changed the store named, run over a connection to the
\* server over, which was in recovery or not at that time.
Write(store, op, over) ==
    [store |-> store, op |-> op, over |-> over,
     in_recovery |-> role[over] = "standby"]

\* DELETE FROM repl_nodes WHERE id = node.
DeleteNode(reg, node) == SelectSeq(reg, LAMBDA r : r.id # node)

\* The DELETE as the log of statements has it: "delete" when it removed the
\* record of the node, "delete_none" when there was none.
DeleteOp(reg, node) ==
    IF \E k \in 1 .. Len(reg) : reg[k].id = node THEN "delete"
    ELSE "delete_none"

\* The DELETE is an error when the server is gone or when a remaining
\* record references the node as its upstream.
DeleteFails(reg, over, node) ==
    \/ ~up[over]
    \/ \E k \in 1 .. Len(reg) :
          reg[k].id # node /\ reg[k].upstream_node_id = node

NewNodeRecordMut(reg, opts, node, type, upstream_node) ==
    NodeRecord(node, type,
               IF upstream_node = NO_UPSTREAM_NODE THEN NULL ELSE upstream_node,
               IF opts.use_replication_slots /\ type = "standby"
               THEN repmgr_slot_name(opts) ELSE NoSlot)

\* create_node_record: the record the INSERT statement carries.
NewNodeRecord(reg, opts, node, type, upstream_node) ==
    NodeRecord(node, type,
               IF upstream_node = NO_UPSTREAM_NODE
               THEN IF type = "standby" THEN get_primary_node_id(reg) ELSE NULL
               ELSE upstream_node,
               IF opts.use_replication_slots /\ type = "standby"
               THEN repmgr_slot_name(opts) ELSE NoSlot)

\* The INSERT is an error when the server is gone, the id is taken, or the
\* upstream id is not the id of a record.
InsertFails(reg, over, rec) ==
    \/ ~up[over]
    \/ rec.id \in RegisteredIds(reg)
    \/ rec.upstream_node_id # NULL
       /\ rec.upstream_node_id \notin RegisteredIds(reg) \cup {rec.id}

\* ----------------------------------------------------- STANDBY REGISTER
\* The connection whose version is read as the master's version.
RegisterMasterVersionConn(c, mc) == c

StandbyRegisterWriteConnMut(c, mc) == c

\* The connection the record is written over:
\* create_node_record(master_conn, "standby register", ...).
StandbyRegisterWriteConn(c, mc) == mc

\* establish_db_connection(options.conninfo, true), then
\* standby_version_num = check_server_version(conn, "standby", true, ...).
StandbyRegisterConnect ==
    /\ action = STANDBY_REGISTER /\ pc = "start"
    /\ IF ~up[Me]
       THEN Exit(ERR_DB_CON, "connection_failed") /\ UNCHANGED standby_version_num
       ELSE IF CheckServerVersionExits(Me, TRUE)
            THEN Exit(ERR_BAD_CONFIG, "version_too_old")
                 /\ UNCHANGED standby_version_num
       ELSE /\ standby_version_num' = check_server_version(Me)
            /\ pc' = "sr_is_standby"
            /\ UNCHANGED << exit_code, log_msg >>
    /\ UNCHANGED << cluster, repl_nodes, elsewhere, config, master_conn,
                    retval, i, promote_sucess, master_version_num, effects,
                    recovery_conf, pollHistory, discoveries, obs >>

StandbyRegisterNotOnStandbyMut(r) == r = 0

\* if (ret == 0 || ret == -1)
StandbyRegisterNotOnStandby(r) == r = 0 \/ r = -1

\* ret = is_standby(conn): the node must be a standby.
StandbyRegisterCheckStandby ==
    /\ action = STANDBY_REGISTER /\ pc = "sr_is_standby"
    /\ retval' = is_standby(Me)
    /\ obs' = [obs EXCEPT !.node = is_standby(Me), !.checked = @ \cup {"node"}]
    /\ IF StandbyRegisterNotOnStandby(retval')
       THEN Exit(ERR_BAD_CONFIG,
                 IF retval' = 0 THEN "not_a_standby" ELSE "connection_lost")
       ELSE pc' = "sr_schema" /\ UNCHANGED << exit_code, log_msg >>
    /\ UNCHANGED << cluster, repl_nodes, elsewhere, config, master_conn, i,
                    promote_sucess, standby_version_num, master_version_num,
                    effects, recovery_conf, pollHistory, discoveries >>

\* check_cluster_schema(conn): the schema must exist.
StandbyRegisterCheckSchema ==
    /\ action = STANDBY_REGISTER /\ pc = "sr_schema"
    /\ IF check_cluster_schema = FALSE
       THEN Exit(ERR_BAD_CONFIG, "no_schema")
       ELSE pc' = "sr_find_master" /\ UNCHANGED << exit_code, log_msg >>
    /\ UNCHANGED << cluster, repl_nodes, elsewhere, config, locals, effects,
                    recovery_conf, pollHistory, discoveries, obs >>

\* master_conn = get_master_connection(...): a master must be defined.
StandbyRegisterFindMaster ==
    /\ action = STANDBY_REGISTER /\ pc = "sr_find_master"
    /\ master_conn' = get_master_connection(repl_nodes)
    /\ obs' = [obs EXCEPT !.master = master_conn',
                          !.primaries = ReportingPrimary(repl_nodes),
                          !.checked = @ \cup {"master"}]
    /\ IF master_conn' = NULL
       THEN Exit(ERR_BAD_CONFIG, "no_master")
       ELSE pc' = "sr_versions" /\ UNCHANGED << exit_code, log_msg >>
    /\ UNCHANGED << cluster, repl_nodes, elsewhere, config, retval, i,
                    promote_sucess, standby_version_num, master_version_num,
                    effects, recovery_conf, pollHistory, discoveries >>

\* master_version_num = check_server_version(conn, "master", false, ...)
\* and the comparison of the two versions divided by 100.
StandbyRegisterCheckVersions ==
    /\ action = STANDBY_REGISTER /\ pc = "sr_versions"
    /\ master_version_num' =
           check_server_version(RegisterMasterVersionConn(Me, master_conn))
    /\ IF master_version_num' < 0
       THEN Exit(ERR_BAD_CONFIG, "version_too_old")
       ELSE IF (master_version_num' \div 100) # (standby_version_num \div 100)
            THEN Exit(ERR_BAD_CONFIG, "version_mismatch")
       ELSE /\ pc' = IF runtime_options.force THEN "sr_delete" ELSE "sr_insert"
            /\ UNCHANGED << exit_code, log_msg >>
    /\ UNCHANGED << cluster, repl_nodes, elsewhere, config, master_conn,
                    retval, i, promote_sucess, standby_version_num, effects,
                    recovery_conf, pollHistory, discoveries, obs >>

\* With --force: DELETE the node's record over master_conn.
StandbyRegisterDelete ==
    /\ action = STANDBY_REGISTER /\ pc = "sr_delete"
    /\ IF DeleteFails(repl_nodes, master_conn, Me)
       THEN /\ Exit(ERR_BAD_CONFIG, "cannot_delete")
            /\ UNCHANGED << repl_nodes, effects, writes >>
       ELSE /\ repl_nodes' = DeleteNode(repl_nodes, Me)
            /\ effects' = Append(effects, "delete")
            /\ writes' = Append(writes, Write("repl_nodes", DeleteOp(repl_nodes, Me),
                                          master_conn))
            /\ pc' = "sr_insert"
            /\ UNCHANGED << exit_code, log_msg >>
    /\ UNCHANGED << cluster, schema_exists, schema_objects, witness_nodes,
                    repl_monitor, ncommands, provisioning, config, locals, recovery_conf,
                    pollHistory, discoveries, obs >>

\* create_node_record(master_conn, "standby register", options.node,
\* "standby", options.upstream_node, ...) and the end of the command.
StandbyRegisterInsert ==
    /\ action = STANDBY_REGISTER /\ pc = "sr_insert"
    /\ LET rec == NewNodeRecord(repl_nodes, options, Me, "standby",
                                options.upstream_node)
           over == StandbyRegisterWriteConn(Me, master_conn)
       IN IF InsertFails(repl_nodes, over, rec)
          THEN /\ Exit(ERR_BAD_CONFIG, "cannot_insert")
               /\ UNCHANGED << repl_nodes, effects, writes >>
          ELSE /\ repl_nodes' = Append(repl_nodes, rec)
               /\ effects' = Append(effects, "insert")
               /\ writes' = Append(writes, Write("repl_nodes", "insert", over))
               /\ Exit(SUCCESS, "standby_registered")
    /\ UNCHANGED << cluster, schema_exists, schema_objects, witness_nodes,
                    repl_monitor, ncommands, provisioning, config, locals, recovery_conf,
                    pollHistory, discoveries, obs >>

StandbyRegisterStep ==
    \/ StandbyRegisterConnect
    \/ StandbyRegisterCheckStandby
    \/ StandbyRegisterCheckSchema
    \/ StandbyRegisterFindMaster
    \/ StandbyRegisterCheckVersions
    \/ StandbyRegisterDelete
    \/ StandbyRegisterInsert

InitStandbyRegister ==
    /\ InitCommon
    /\ action = STANDBY_REGISTER
    /\ schema_exists \in BOOLEAN
    /\ IdleStores
    /\ IdleProvisioning
    /\ pgpassword = [set |-> FALSE, value |-> ""]
    /\ \E force \in BOOLEAN : runtime_options = NoConnParams(force, FALSE)
    /\ \E n \in Nodes, slots \in BOOLEAN, upstream \in {NO_UPSTREAM_NODE, 1} :
          options = [node |-> n, node_name |-> "standby",
                     upstream_node |-> upstream,
                     use_replication_slots |-> slots]
    /\ InitVersions(Versions)

NextStandbyRegister ==
    \/ StandbyRegisterStep
    \/ \E n \in Nodes : NodeDown(n)
    \/ \E n \in Nodes : NodeUp(n)
    \/ \E n \in Nodes : ServerPromoted(n)

SpecStandbyRegister == InitStandbyRegister /\ [][NextStandbyRegister]_vars

\* ------------------------------------------------ claims: STANDBY REGISTER
\* C8: the standby's record is inserted only if the located primary's
\* version and the standby's version are equal after division by 100; with
\* different major versions the command is refused and the registry is not
\* written.
C8_RegisterOnlySameEpoch ==
    (action = STANDBY_REGISTER /\ master_conn # NULL
     /\ (version[master_conn] \div 100) # (version[Me] \div 100)) =>
        /\ ~Did("insert") /\ ~Did("delete")
        /\ pc = "done" => exit_code # SUCCESS

\* The record the command inserted: create_node_record appends it.
InsertedRecord == repl_nodes[Len(repl_nodes)]

\* The registry the INSERT was run against.
RegistryBeforeInsert == SubSeq(repl_nodes, 1, Len(repl_nodes) - 1)

RegistryTableExists == schema_objects >= 3

\* create_schema(conn) with its statement number fail_at failing: statement
\* 0 is CREATE SCHEMA, statements 1 .. NumSchemaObjects create the objects,
\* NumSchemaObjects + 1 stands for no failure.  A failed CREATE SCHEMA,
\* CREATE TABLE, CREATE VIEW or CREATE INDEX exits, a failed CREATE FUNCTION
\* returns false.
CreateSchemaExits(fail_at) == fail_at \in {0, 3, 4, 5, 6}

CreateSchemaReturns(fail_at) == fail_at = NumSchemaObjects + 1

\* The objects that exist once create_schema has ended.
CreatedObjects(fail_at) == IF fail_at = 0 THEN 0 ELSE fail_at - 1

MasterRegisterRefusesSchemaMut(exists, force) == FALSE

\* if(schema_exists && !runtime_options.force)
MasterRegisterRefusesSchema(exists, force) == exists /\ ~force

\* establish_db_connection(options.conninfo, true) and
\* check_server_version(conn, "master", true, NULL).
MasterRegisterConnect ==
    /\ action = MASTER_REGISTER /\ pc = "start"
    /\ IF ~up[Me]
       THEN Exit(ERR_DB_CON, "connection_failed")
       ELSE IF CheckServerVersionExits(Me, TRUE)
            THEN Exit(ERR_BAD_CONFIG, "version_too_old")
       ELSE pc' = "mr_is_standby" /\ UNCHANGED << exit_code, log_msg >>
    /\ UNCHANGED << cluster, repl_nodes, elsewhere, config, locals, effects,
                    recovery_conf, pollHistory, discoveries, obs >>

\* ret = is_standby(conn): the node must be a master.
MasterRegisterCheckMaster ==
    /\ action = MASTER_REGISTER /\ pc = "mr_is_standby"
    /\ retval' = is_standby(Me)
    /\ obs' = [obs EXCEPT !.node = is_standby(Me), !.checked = @ \cup {"node"}]
    /\ IF retval' # 0
       THEN Exit(ERR_BAD_CONFIG,
                 IF retval' = 1 THEN "is_a_standby" ELSE "connection_lost")
       ELSE pc' = "mr_schema" /\ UNCHANGED << exit_code, log_msg >>
    /\ UNCHANGED << cluster, repl_nodes, elsewhere, config, master_conn, i,
                    promote_sucess, standby_version_num, master_version_num,
                    effects, recovery_conf, pollHistory, discoveries >>

\* schema_exists = check_cluster_schema(conn) and the refusal without force.
MasterRegisterCheckSchema ==
    /\ action = MASTER_REGISTER /\ pc = "mr_schema"
    /\ obs' = [obs EXCEPT !.schema = check_cluster_schema,
                          !.checked = @ \cup {"schema"}]
    /\ IF MasterRegisterRefusesSchema(check_cluster_schema, runtime_options.force)
       THEN Exit(ERR_BAD_CONFIG, "schema_exists")
       ELSE /\ pc' = IF ~check_cluster_schema THEN "mr_create_schema"
                     ELSE IF runtime_options.force THEN "mr_delete"
                     ELSE "mr_find_master"
            /\ UNCHANGED << exit_code, log_msg >>
    /\ UNCHANGED << cluster, repl_nodes, elsewhere, config, locals, effects,
                    recovery_conf, pollHistory, discoveries >>

\* if (!create_schema(conn)) return;
MasterRegisterCreateSchema(fail_at) ==
    /\ action = MASTER_REGISTER /\ pc = "mr_create_schema"
    /\ ~up[Me] => fail_at = 0
    /\ schema_exists' = (fail_at # 0)
    /\ schema_objects' = CreatedObjects(fail_at)
    /\ repl_nodes' = << >>
    /\ writes' = IF fail_at = 0 THEN writes
                 ELSE Append(writes, Write("schema", "create", Me))
    /\ IF CreateSchemaExits(fail_at)
       THEN Exit(ERR_BAD_CONFIG, "cannot_create_schema")
       ELSE IF ~CreateSchemaReturns(fail_at)
            THEN Exit(SUCCESS, "cannot_create_function")
       ELSE pc' = "mr_insert" /\ UNCHANGED << exit_code, log_msg >>
    /\ UNCHANGED << cluster, witness_nodes, repl_monitor, ncommands, provisioning, config,
                    locals, effects, recovery_conf, pollHistory, discoveries,
                    obs >>

\* With --force and an existing schema: DELETE the node's record over conn.
MasterRegisterDelete ==
    /\ action = MASTER_REGISTER /\ pc = "mr_delete"
    /\ IF ~RegistryTableExists \/ DeleteFails(repl_nodes, Me, Me)
       THEN /\ Exit(ERR_BAD_CONFIG, "cannot_delete")
            /\ UNCHANGED << repl_nodes, effects, writes >>
       ELSE /\ repl_nodes' = DeleteNode(repl_nodes, Me)
            /\ effects' = Append(effects, "delete")
            /\ writes' = Append(writes, Write("repl_nodes", DeleteOp(repl_nodes, Me), Me))
            /\ pc' = "mr_find_master"
            /\ UNCHANGED << exit_code, log_msg >>
    /\ UNCHANGED << cluster, schema_exists, schema_objects, witness_nodes,
                    repl_monitor, ncommands, provisioning, config, locals, recovery_conf,
                    pollHistory, discoveries, obs >>

\* master_conn = get_master_connection(...): no other master may answer.
MasterRegisterFindMaster ==
    /\ action = MASTER_REGISTER /\ pc = "mr_find_master"
    /\ master_conn' = get_master_connection(repl_nodes)
    /\ obs' = [obs EXCEPT !.master = master_conn',
                          !.primaries = ReportingPrimary(repl_nodes),
                          !.checked = @ \cup {"master"}]
    /\ IF master_conn' # NULL
       THEN Exit(ERR_BAD_CONFIG, "master_exists")
       ELSE pc' = "mr_insert" /\ UNCHANGED << exit_code, log_msg >>
    /\ UNCHANGED << cluster, repl_nodes, elsewhere, config, retval, i,
                    promote_sucess, standby_version_num, master_version_num,
                    effects, recovery_conf, pollHistory, discoveries >>

\* create_node_record(conn, "master register", options.node, "primary",
\* NO_UPSTREAM_NODE, ...) and the end of the command.
MasterRegisterInsert ==
    /\ action = MASTER_REGISTER /\ pc = "mr_insert"
    /\ LET rec == NewNodeRecord(repl_nodes, options, Me, "primary",
                                NO_UPSTREAM_NODE)
       IN IF ~RegistryTableExists \/ InsertFails(repl_nodes, Me, rec)
          THEN /\ Exit(ERR_DB_QUERY, "cannot_insert")
               /\ UNCHANGED << repl_nodes, effects, writes >>
          ELSE /\ repl_nodes' = Append(repl_nodes, rec)
               /\ effects' = Append(effects, "insert")
               /\ writes' = Append(writes, Write("repl_nodes", "insert", Me))
               /\ Exit(SUCCESS, "master_registered")
    /\ UNCHANGED << cluster, schema_exists, schema_objects, witness_nodes,
                    repl_monitor, ncommands, provisioning, config, locals, recovery_conf,
                    pollHistory, discoveries, obs >>

MasterRegisterStep ==
    \/ MasterRegisterConnect
    \/ MasterRegisterCheckMaster
    \/ MasterRegisterCheckSchema
    \/ \E fail_at \in 0 .. NumSchemaObjects + 1 : MasterRegisterCreateSchema(fail_at)
    \/ MasterRegisterDelete
    \/ MasterRegisterFindMaster
    \/ MasterRegisterInsert

\* --------------------------------------------------------- WITNESS CREATE
\* The server the connection parameters --host and --port lead to.
NodeOfHost(h) == CHOOSE n \in Nodes : PQhost(n) = h

\* runtime_options.username[0] && runtime_options.localport[0] &&
\* strcmp(runtime_options.username, "postgres") != 0, localport being set
\* by then.
WitnessNeedsUser(ro) == ro.username # "" /\ ro.username # "postgres"

\* runtime_options.dbname[0] && strcmp(runtime_options.dbname, "postgres") != 0
\* && runtime_options.localport[0]
WitnessNeedsDb(ro) == ro.dbname # "" /\ ro.dbname # "postgres"

\* The calls of do_witness_create to programs and to the file system, in
\* order, between the check of the master and the registration: position
\* of the command, what is run, and the exit code when it fails.
WitnessSteps ==
    << [pc |-> "wc_ssh", run |-> "test_ssh_connection", code |-> ERR_BAD_SSH],
       [pc |-> "wc_dir", run |-> "create_pg_dir", code |-> ERR_BAD_CONFIG],
       [pc |-> "wc_init", run |-> "pg_ctl init", code |-> ERR_BAD_CONFIG],
       [pc |-> "wc_conf", run |-> "append postgresql.conf", code |-> ERR_BAD_CONFIG],
       [pc |-> "wc_start", run |-> "pg_ctl start", code |-> ERR_BAD_CONFIG],
       [pc |-> "wc_user", run |-> "createuser", code |-> ERR_BAD_CONFIG],
       [pc |-> "wc_db", run |-> "createdb", code |-> ERR_BAD_CONFIG],
       [pc |-> "wc_hba_file", run |-> "get_pg_setting", code |-> ERR_DB_QUERY],
       [pc |-> "wc_copy_hba", run |-> "copy_remote_files", code |-> ERR_BAD_CONFIG],
       [pc |-> "wc_reload", run |-> "pg_ctl reload", code |-> ERR_BAD_CONFIG] >>

WitnessStepApplies(k, ro) ==
    /\ WitnessSteps[k].pc = "wc_user" => WitnessNeedsUser(ro)
    /\ WitnessSteps[k].pc = "wc_db" => WitnessNeedsDb(ro)

\* The position after step k: the next step that applies, or the INSERT.
WitnessPcAfter(k, ro) ==
    LET later == { j \in k + 1 .. Len(WitnessSteps) : WitnessStepApplies(j, ro) }
    IN IF later = {} THEN "wc_insert"
       ELSE WitnessSteps[CHOOSE j \in later : \A l \in later : j <= l].pc

\* establish_db_connection_by_params(keywords, values, true) and
\* check_server_version(masterconn, "master", true, NULL).
WitnessConnect ==
    /\ action = WITNESS_CREATE /\ pc = "start"
    /\ LET m == NodeOfHost(runtime_options.host)
       IN IF ~up[m]
          THEN Exit(ERR_DB_CON, "connection_failed") /\ UNCHANGED master_conn
          ELSE IF CheckServerVersionExits(m, TRUE)
               THEN Exit(ERR_BAD_CONFIG, "version_too_old")
                    /\ UNCHANGED master_conn
          ELSE /\ master_conn' = m
               /\ pc' = "wc_is_standby"
               /\ UNCHANGED << exit_code, log_msg >>
    /\ UNCHANGED << cluster, repl_nodes, elsewhere, config, retval, i,
                    promote_sucess, standby_version_num, master_version_num,
                    effects, recovery_conf, pollHistory, discoveries, obs >>

\* retval = is_standby(masterconn): the server must be a primary.
WitnessCheckMaster ==
    /\ action = WITNESS_CREATE /\ pc = "wc_is_standby"
    /\ retval' = is_standby(master_conn)
    /\ obs' = [obs EXCEPT !.master = IF retval' = 0 THEN master_conn ELSE NULL,
                          !.checked = @ \cup {"master"}]
    /\ IF retval' # 0
       THEN Exit(ERR_BAD_CONFIG,
                 IF retval' = 1 THEN "is_a_standby" ELSE "connection_lost")
       ELSE pc' = WitnessPcAfter(0, runtime_options)
            /\ UNCHANGED << exit_code, log_msg >>
    /\ UNCHANGED << cluster, repl_nodes, elsewhere, config, master_conn, i,
                    promote_sucess, standby_version_num, master_version_num,
                    effects, recovery_conf, pollHistory, discoveries >>

\* What WITNESS CREATE leaves alone of what STANDBY CLONE and the check of
\* the upstream configuration use.
provisioned == << upstreamServer, replication_slots, dest_state, cloneLocals,
                  checks >>

\* The results of a call of WitnessSteps: 0 is success; appending to
\* postgresql.conf can also open the file and then fail to write (2), which
\* fputs and fclose report and do_witness_create does not read.
StepResults(k) ==
    IF WitnessSteps[k].pc = "wc_conf" THEN {0, 1, 2}
    ELSE IF WitnessSteps[k].run = "get_pg_setting" THEN {0}
    ELSE {0, 1}

\* One of the calls of WitnessSteps, returning r; the primary's hba_file
\* setting is read with get_pg_setting instead.
WitnessExternalStep(r) ==
    /\ action = WITNESS_CREATE
    /\ \E k \in 1 .. Len(WitnessSteps) :
          /\ pc = WitnessSteps[k].pc
          /\ r \in StepResults(k)
          /\ LET ok == IF WitnessSteps[k].run = "get_pg_setting"
                       THEN get_pg_setting(master_conn) ELSE r = 0
                 ignored == r = 2
             IN /\ steps' = Append(steps, [step |-> WitnessSteps[k].run,
                                           ok |-> ok])
                /\ IF ok \/ ignored
                   THEN /\ effects' = Append(effects, WitnessSteps[k].run)
                        /\ pc' = WitnessPcAfter(k, runtime_options)
                        /\ UNCHANGED << exit_code, log_msg >>
                   ELSE /\ Exit(WitnessSteps[k].code, WitnessSteps[k].run)
                        /\ UNCHANGED effects
    /\ UNCHANGED << cluster, repl_nodes, schema_exists, stores, provisioned,
                    config, locals, recovery_conf, pollHistory, discoveries,
                    obs >>

\* create_node_record(masterconn, "witness create", options.node, "witness",
\* NO_UPSTREAM_NODE, ...).
WitnessInsert ==
    /\ action = WITNESS_CREATE /\ pc = "wc_insert"
    /\ LET rec == NewNodeRecord(repl_nodes, options, Me, "witness",
                                NO_UPSTREAM_NODE)
       IN IF ~RegistryTableExists \/ InsertFails(repl_nodes, master_conn, rec)
          THEN /\ Exit(ERR_DB_QUERY, "cannot_insert")
               /\ steps' = Append(steps, [step |-> "insert", ok |-> FALSE])
               /\ UNCHANGED << repl_nodes, effects, writes >>
          ELSE /\ repl_nodes' = Append(repl_nodes, rec)
               /\ effects' = Append(effects, "insert")
               /\ steps' = Append(steps, [step |-> "insert", ok |-> TRUE])
               /\ writes' = Append(writes,
                                   Write("repl_nodes", "insert", master_conn))
               /\ pc' = "wc_connect_witness"
               /\ UNCHANGED << exit_code, log_msg >>
    /\ UNCHANGED << cluster, schema_exists, schema_objects, witness_nodes,
                    repl_monitor, ncommands, provisioned, config, locals,
                    recovery_conf, pollHistory, discoveries, obs >>

\* A statement run over the connection to the witness server.
WitnessWrite(store, op) ==
    [store |-> store, op |-> op, over |-> Me, in_recovery |-> FALSE]

\* witnessconn = establish_db_connection(options.conninfo, true) and
\* create_schema(witnessconn) on the new instance.
WitnessCreateSchema(connected, fail_at) ==
    /\ action = WITNESS_CREATE /\ pc = "wc_connect_witness"
    /\ ~connected => fail_at = 0
    /\ IF ~connected
       THEN Exit(ERR_DB_CON, "connection_failed") /\ UNCHANGED writes
       ELSE /\ writes' = IF fail_at = 0 THEN writes
                         ELSE Append(writes, WitnessWrite("witness_schema", "create"))
            /\ IF CreateSchemaReturns(fail_at)
               THEN pc' = "wc_copy" /\ UNCHANGED << exit_code, log_msg >>
               ELSE Exit(ERR_BAD_CONFIG, "cannot_create_schema")
    /\ steps' = Append(steps, [step |-> "create_schema",
                               ok |-> connected /\ CreateSchemaReturns(fail_at)])
    /\ witness_nodes' = << >>
    /\ UNCHANGED << cluster, repl_nodes, schema_exists, schema_objects,
                    repl_monitor, ncommands, provisioned, config, locals,
                    effects, recovery_conf, pollHistory, discoveries, obs >>

\* The loop of copy_configuration from row k on: each row of the master's
\* repl_nodes is inserted into the witness's table with create_node_record
\* until an INSERT fails.
RECURSIVE CopyRows(_, _, _, _)
CopyRows(rows, k, copy, opts) ==
    IF k > Len(rows) THEN [ok |-> TRUE, copy |-> copy]
    ELSE LET rec == NewNodeRecord(copy, opts, rows[k].id, rows[k].type,
                                  IF rows[k].upstream_node_id = NULL
                                  THEN NO_UPSTREAM_NODE
                                  ELSE rows[k].upstream_node_id)
         IN IF rec.id \in RegisteredIds(copy)
               \/ (rec.upstream_node_id # NULL
                   /\ rec.upstream_node_id \notin RegisteredIds(copy) \cup {rec.id})
            THEN [ok |-> FALSE, copy |-> copy]
            ELSE CopyRows(rows, k + 1, Append(copy, rec), opts)

\* The orders in which a SELECT without ORDER BY can return n rows.
RowOrders(n) ==
    { p \in [1 .. n -> 1 .. n] : \A a, b \in 1 .. n : p[a] = p[b] => a = b }

\* if (runtime_options.username[0] && runtime_options.localport[0] &&
\* strcmp(runtime_options.username, "postgres") != 0) before ALTER ROLE.
WitnessDropsSuperuserMut(ro) == FALSE

WitnessDropsSuperuser(ro) == WitnessNeedsUser(ro)

\* copy_configuration(masterconn, witnessconn): TRUNCATE of the witness's
\* table (truncated: it succeeded), SELECT on the master, whose rows come in
\* the order p, one INSERT per row.
WitnessCopyConfiguration(truncated, p) ==
    /\ action = WITNESS_CREATE /\ pc = "wc_copy"
    /\ p \in RowOrders(Len(repl_nodes))
    /\ LET selected == up[master_conn]
           rows == [k \in 1 .. Len(repl_nodes) |-> repl_nodes[p[k]]]
           result == CopyRows(rows, 1, << >>, options)
           copied == truncated /\ selected /\ result.ok
       IN /\ witness_nodes' = IF ~truncated THEN witness_nodes
                              ELSE IF selected THEN result.copy ELSE << >>
          /\ writes' = IF truncated
                       THEN Append(writes, WitnessWrite("witness_nodes", "copy"))
                       ELSE writes
          /\ steps' = Append(steps, [step |-> "copy_configuration",
                                     ok |-> copied])
          /\ IF copied
             THEN IF WitnessDropsSuperuser(runtime_options)
                  THEN pc' = "wc_alter_role" /\ UNCHANGED << exit_code, log_msg >>
                  ELSE Exit(SUCCESS, "configuration_copied")
             ELSE Exit(ERR_BAD_CONFIG,
                       IF ~truncated THEN "cannot_clean_witness"
                       ELSE IF ~selected THEN "cannot_get_configuration"
                       ELSE "cannot_create_witness_record")
    /\ UNCHANGED << cluster, repl_nodes, schema_exists, schema_objects,
                    repl_monitor, ncommands, provisioned, config, locals,
                    effects, recovery_conf, pollHistory, discoveries, obs >>

\* ALTER ROLE ... NOSUPERUSER over witnessconn, returning r (0 is success).
WitnessAlterRole(r) ==
    /\ action = WITNESS_CREATE /\ pc = "wc_alter_role"
    /\ steps' = Append(steps, [step |-> "alter_role", ok |-> r = 0])
    /\ IF r = 0
       THEN /\ effects' = Append(effects, "alter_role")
            /\ Exit(SUCCESS, "configuration_copied")
       ELSE Exit(ERR_DB_QUERY, "cannot_alter_role") /\ UNCHANGED effects
    /\ UNCHANGED << cluster, repl_nodes, schema_exists, stores, provisioned,
                    config, locals, recovery_conf, pollHistory, discoveries,
                    obs >>

WitnessCreateStep ==
    \/ WitnessConnect
    \/ WitnessCheckMaster
    \/ \E r \in {0, 1, 2} : WitnessExternalStep(r)
    \/ WitnessInsert
    \/ \E connected \in BOOLEAN, fail_at \in 0 .. NumSchemaObjects + 1 :
          WitnessCreateSchema(connected, fail_at)
    \/ \E truncated \in BOOLEAN, p \in RowOrders(Len(repl_nodes)) :
          WitnessCopyConfiguration(truncated, p)
    \/ \E r \in {0, 1} : WitnessAlterRole(r)

\* -------------------------------------------------------- CLUSTER CLEANUP
\* repl_monitor is the fourth object create_schema creates.
MonitorTableExists == schema_objects >= 4

CleanHistoryMut(history, keep_history) ==
    IF keep_history > 0 THEN { a \in history : a <= keep_history } ELSE {}

\* DELETE ... WHERE age(now(), last_monitor_time) >= 'keep_history days',
\* or TRUNCATE when keep_history is not positive.
CleanHistory(history, keep_history) ==
    IF keep_history > 0 THEN { a \in history : a < keep_history } ELSE {}

\* conn = establish_db_connection(options.conninfo, true).
CleanupConnect ==
    /\ action = CLUSTER_CLEANUP /\ pc = "start"
    /\ IF ~up[Me]
       THEN Exit(ERR_DB_CON, "connection_failed")
       ELSE pc' = "cc_find_master" /\ UNCHANGED << exit_code, log_msg >>
    /\ UNCHANGED << cluster, repl_nodes, elsewhere, config, locals, effects,
                    recovery_conf, pollHistory, discoveries, obs >>

\* master_conn = get_master_connection(...): there must be a master.
CleanupFindMaster ==
    /\ action = CLUSTER_CLEANUP /\ pc = "cc_find_master"
    /\ master_conn' = get_master_connection(repl_nodes)
    /\ obs' = [obs EXCEPT !.master = master_conn',
                          !.primaries = ReportingPrimary(repl_nodes),
                          !.checked = @ \cup {"master"}]
    /\ IF master_conn' = NULL
       THEN Exit(ERR_DB_CON, "no_master")
       ELSE pc' = "cc_clean" /\ UNCHANGED << exit_code, log_msg >>
    /\ UNCHANGED << cluster, repl_nodes, elsewhere, config, retval, i,
                    promote_sucess, standby_version_num, master_version_num,
                    effects, recovery_conf, pollHistory, discoveries >>

\* The DELETE or TRUNCATE over master_conn, then VACUUM, whose result is
\* not looked at.
CleanupClean ==
    /\ action = CLUSTER_CLEANUP /\ pc = "cc_clean"
    /\ IF ~up[master_conn] \/ ~MonitorTableExists
       THEN /\ Exit(ERR_BAD_CONFIG, "cannot_clean_history")
            /\ UNCHANGED << repl_monitor, writes >>
       ELSE /\ repl_monitor' =
                  CleanHistory(repl_monitor, runtime_options.keep_history)
            /\ writes' = Append(writes, Write("repl_monitor", "clean", master_conn))
            /\ Exit(SUCCESS, "history_cleaned")
    /\ UNCHANGED << cluster, repl_nodes, schema_exists, schema_objects,
                    witness_nodes, ncommands, provisioning, config, locals, effects,
                    recovery_conf, pollHistory, discoveries, obs >>

ClusterCleanupStep ==
    \/ CleanupConnect
    \/ CleanupFindMaster
    \/ CleanupClean

\* --------------------------------------- commands run one after the other
\* Commands run on the cluster (bound).
MaxCommands == 3

\* Oldest row of the monitoring history, in days (bound).
MaxAge == 1

\* t_runtime_options as the command line sets it.
RuntimeOptions(force, host, username, dbname, keep_history) ==
    [host |-> host, masterport |-> "", username |-> username,
     dbname |-> dbname, force |-> force, wait_for_master |-> FALSE,
     min_recovery_apply_delay |-> "", keep_history |-> keep_history]

\* repmgr.conf of node n.
NodeOptions(n) ==
    [node |-> n, node_name |-> "node", upstream_node |-> NO_UPSTREAM_NODE,
     use_replication_slots |-> FALSE]

\* case 'k': runtime_options.keep_history is atoi(optarg) if that is
\* positive, and 0 if not.
KeepHistoryOption(arg) == IF arg > 0 THEN arg ELSE 0

\* The command lines: action, repmgr.conf, options.  REGISTER and PROMOTE
\* take no connection parameter (check_parameters_for_action), WITNESS
\* CREATE names the master's host, CLUSTER CLEANUP takes --keep-history.
CommandLines ==
    { << a, NodeOptions(n), RuntimeOptions(f, "", "", "", 0) >> :
         a \in {MASTER_REGISTER, STANDBY_REGISTER}, n \in Nodes, f \in BOOLEAN }
    \cup { << STANDBY_PROMOTE, NodeOptions(n), RuntimeOptions(FALSE, "", "", "", 0) >> :
              n \in Nodes }
    \cup { << WITNESS_CREATE, NodeOptions(n),
               RuntimeOptions(FALSE, PQhost(m), u,
                              IF u = "" THEN "postgres" ELSE u, 0) >> :
              n \in Nodes, m \in Nodes, u \in {"", "repmgr"} }
    \cup { << CLUSTER_CLEANUP, NodeOptions(n),
               RuntimeOptions(FALSE, "", "", "", KeepHistoryOption(k)) >> :
              n \in Nodes, k \in -1 .. MaxAge }

\* The command has ended and the next one is started: a new process, with
\* the cluster and the stores as the last one left them.  The monitoring
\* daemon has written any history by the time a CLUSTER CLEANUP starts.
NextCommand ==
    /\ pc = "done"
    /\ ncommands < MaxCommands
    /\ ncommands' = ncommands + 1
    /\ \E c \in CommandLines :
          /\ action' = c[1] /\ options' = c[2] /\ runtime_options' = c[3]
          /\ IF c[1] = CLUSTER_CLEANUP
             THEN repl_monitor' \in SUBSET (0 .. MaxAge)
             ELSE UNCHANGED repl_monitor
    /\ pc' = "start"
    /\ master_conn' = NULL
    /\ retval' = 1
    /\ i' = 0
    /\ promote_sucess' = FALSE
    /\ standby_version_num' = 0
    /\ master_version_num' = 0
    /\ exit_code' = "running"
    /\ log_msg' = "none"
    /\ effects' = << >>
    /\ writes' = << >>
    /\ nprobes' = 0
    /\ seen' = {}
    /\ late_probes' = 0
    /\ discoveries' = 0
    /\ obs' = [node |-> 1, master |-> NULL, candidate |-> 1, primaries |-> {},
               checked |-> {}, schema |-> FALSE]
    /\ steps' = << >>
    /\ UNCHANGED << cluster, repl_nodes, schema_exists, schema_objects,
                    witness_nodes, pgpassword, recovery_conf, provisioned >>

\* A cluster nothing was registered in yet, one server of which is the
\* primary, and the first command.
InitCommands ==
    /\ InitCommon
    /\ Cardinality({ n \in Nodes : role[n] = "primary" }) = 1
    /\ repl_nodes = << >>
    /\ schema_exists = FALSE
    /\ IdleStores
    /\ IdleProvisioning
    /\ version = [n \in Nodes |-> 90400]
    /\ pgpassword = [set |-> FALSE, value |-> ""]
    /\ \E c \in CommandLines :
          action = c[1] /\ options = c[2] /\ runtime_options = c[3]

PromoteStep ==
    \/ PromoteConnect
    \/ PromoteCheckStandby
    \/ PromoteCheckMaster
    \/ PromoteGetDataDir
    \/ \E r \in {0, 1} : PromotePgCtl(r)
    \/ PromoteReconnect
    \/ PromotePoll
    \/ PromoteReport

NextCommands ==
    \/ MasterRegisterStep
    \/ StandbyRegisterStep
    \/ PromoteStep
    \/ WitnessCreateStep
    \/ ClusterCleanupStep
    \/ NextCommand
    \/ \E n \in Nodes : NodeDown(n)
    \/ \E n \in Nodes : NodeUp(n)
    \/ \E n \in Nodes : ServerPromoted(n)

SpecCommands == InitCommands /\ [][NextCommands]_vars

\* ----------------------------------------------- claims: the node registry
PrimaryRecords == { k \in 1 .. Len(repl_nodes) : repl_nodes[k].type = "primary" }

\* C12: with commands run one at a time, after any sequence of MASTER
\* REGISTER, STANDBY REGISTER, WITNESS CREATE, STANDBY PROMOTE and node
\* failures, repl_nodes holds at most one record of type primary (every
\* record is active: no command clears the column).
C12_AtMostOnePrimary == Cardinality(PrimaryRecords) <= 1

\* The connection of the command that its check found out of recovery:
\* conn after is_standby(conn) returned 0 in MASTER REGISTER, the master
\* connection of the other commands.
ReportedPrimary ==
    IF action = MASTER_REGISTER
    THEN IF "node" \in obs.checked /\ obs.node = 0 THEN {Me} ELSE {}
    ELSE IF "master" \in obs.checked /\ obs.master # NULL THEN {obs.master}
    ELSE {}

WitnessStores == {"witness_schema", "witness_nodes"}

ClusterStores == << repl_nodes, schema_exists, schema_objects, repl_monitor >>

C13_Inv ==
    \A k \in 1 .. Len(writes) :
        IF writes[k].store \in WitnessStores
        THEN action = WITNESS_CREATE /\ writes[k].over = Me
        ELSE /\ writes[k].over \in ReportedPrimary
             /\ ~writes[k].in_recovery

\* C13: every statement that changes the node registry, the schema or the
\* monitoring history (DELETE and INSERT of MASTER REGISTER, STANDBY REGISTER
\* and WITNESS CREATE, the pruning of CLUSTER CLEANUP) is run over a
\* connection to a server that reported primary and is not in recovery;
\* the only other store written is the witness's own copy; and no step of
\* a command changes these stores without such a statement.
C13_WritesOverPrimary ==
    /\ [](C13_Inv)
    /\ [][(pc # "done" /\ ClusterStores' # ClusterStores) =>
             Len(writes') = Len(writes) + 1]_vars

\* STANDBY REGISTER has inserted its record over the connection to the
\* primary, another server than its own.
C13_Witness ==
    /\ action = STANDBY_REGISTER /\ pc = "done" /\ exit_code = SUCCESS
    /\ Len(writes) >= 1
    /\ writes[Len(writes)].store = "repl_nodes"
    /\ writes[Len(writes)].over # Me
    /\ role[Me] = "standby"

\* Whether the schema existed when the command was started: nothing creates
\* it before the command has looked.
SchemaExistedAtStart ==
    IF "schema" \in obs.checked THEN obs.schema ELSE schema_exists

MasterRegisterWithoutForce ==
    action = MASTER_REGISTER /\ ~runtime_options.force /\ SchemaExistedAtStart

C14_Inv ==
    (MasterRegisterWithoutForce /\ "schema" \in obs.checked) =>
        /\ pc = "done"
        /\ exit_code = ERR_BAD_CONFIG
        /\ log_msg = "schema_exists"
        /\ writes = << >>

\* C14: MASTER REGISTER without --force on a cluster whose schema exists
\* reports that the schema exists, exits with an error and changes nothing:
\* no step of it changes the schema objects, the registry rows or the
\* history, whatever commands were run before.
C14_RegisterRefusedUnchanged ==
    /\ [](C14_Inv)
    /\ [][(MasterRegisterWithoutForce /\ pc # "done") =>
             UNCHANGED << ClusterStores, witness_nodes >>]_vars

\* The command was refused on a cluster with registered nodes, after
\* another command.
C14_Witness ==
    /\ MasterRegisterWithoutForce /\ "schema" \in obs.checked
    /\ pc = "done" /\ log_msg = "schema_exists"
    /\ repl_nodes # << >>
    /\ ncommands >= 2

\* ------------------------------------------------- check_upstream_config
CHECK_UPSTREAM_CONFIG == "CHECK_UPSTREAM_CONFIG"
STANDBY_CLONE == "STANDBY_CLONE"
ERR_BAD_BASEBACKUP == "ERR_BAD_BASEBACKUP"

\* Largest value of an integer setting of the upstream server (bound).
MaxSetting == 2

\* guc_set(conn, parameter, "=", value): 1 if the setting has the value, 0
\* if not, -1 if the query failed.
guc_set(n, parameter, value) ==
    IF ~up[n] THEN -1 ELSE IF settings[parameter] = value THEN 1 ELSE 0

\* guc_set_typed(conn, parameter, op, value, "integer"), likewise.
guc_set_typed(n, parameter, op, value) ==
    IF ~up[n] THEN -1
    ELSE IF \/ op = ">" /\ settings[parameter] > value
            \/ op = ">=" /\ settings[parameter] >= value
         THEN 1 ELSE 0

\* STANDBY CLONE calls check_upstream_config with exit_on_error = true, the
\* check of the upstream configuration with false.
exit_on_error == action = STANDBY_CLONE

\* if (i == 0 || i == -1): the check did not pass.
CheckNotPassed(res) == res = 0 \/ res = -1

\* The check of max_replication_slots: exit and config_ok = false are
\* inside if (i == 0).
SlotCountNotPassed(res) == res = 0

\* guc_set_typed(conn, "max_replication_slots", ">", "1", "integer")
SlotCountCheck(n) == guc_set_typed(n, "max_replication_slots", ">", 1)

\* guc_set_typed(conn, "max_wal_senders", ">", "0", "integer")
SenderCountCheck(n) == guc_set_typed(n, "max_wal_senders", ">", 0)

\* What follows one check: the result is kept in i; a check that did not
\* pass ends the command when exit_on_error, and clears config_ok if not.
AfterCheck(name, res, not_passed, next) ==
    /\ i' = res
    /\ checks' = Append(checks, [name |-> name, result |-> res])
    /\ IF not_passed /\ exit_on_error
       THEN Exit(ERR_BAD_CONFIG, name) /\ UNCHANGED config_ok
       ELSE /\ config_ok' = IF not_passed THEN FALSE ELSE config_ok
            /\ pc' = next
            /\ UNCHANGED << exit_code, log_msg >>
    /\ UNCHANGED << cluster, repl_nodes, schema_exists, stores, config,
                    master_conn, retval, promote_sucess, standby_version_num,
                    master_version_num, effects, recovery_conf, pollHistory,
                    discoveries, obs, upstreamServer, replication_slots,
                    dest_state, server_version_num, config_file_copy_required,
                    master_files, clone_r, clone_retval, steps >>

\* i = guc_set(conn, "wal_level", "=", "hot_standby")
UpstreamCheckWalLevel ==
    /\ pc = "cu_wal_level"
    /\ LET res == guc_set(master_conn, "wal_level", "hot_standby")
       IN AfterCheck("wal_level", res, CheckNotPassed(res), "cu_slots")

\* With use_replication_slots: the server version must support slots, and
\* if it does max_replication_slots is checked; without:
\* i = guc_set_typed(conn, "wal_keep_segments", ">=",
\* runtime_options.wal_keep_segments, "integer").
UpstreamCheckSlots ==
    /\ pc = "cu_slots"
    /\ IF options.use_replication_slots
       THEN IF server_version_num < 90400
            THEN AfterCheck("slot_support", 0, TRUE, "cu_archive_mode")
            ELSE LET res == SlotCountCheck(master_conn)
                 IN AfterCheck("max_replication_slots", res,
                               SlotCountNotPassed(res), "cu_archive_mode")
       ELSE LET res == guc_set_typed(master_conn, "wal_keep_segments", ">=",
                                     runtime_options.wal_keep_segments)
            IN AfterCheck("wal_keep_segments", res, CheckNotPassed(res),
                          "cu_archive_mode")

\* i = guc_set(conn, "archive_mode", "=", "on")
UpstreamCheckArchiveMode ==
    /\ pc = "cu_archive_mode"
    /\ LET res == guc_set(master_conn, "archive_mode", "on")
       IN AfterCheck("archive_mode", res, CheckNotPassed(res), "cu_hot_standby")

\* i = guc_set(conn, "hot_standby", "=", "on")
UpstreamCheckHotStandby ==
    /\ pc = "cu_hot_standby"
    /\ LET res == guc_set(master_conn, "hot_standby", "on")
       IN AfterCheck("hot_standby", res, CheckNotPassed(res), "cu_max_wal_senders")

\* i = guc_set_typed(conn, "max_wal_senders", ">", "0", "integer") and
\* return config_ok.
UpstreamCheckSenders ==
    /\ pc = "cu_max_wal_senders"
    /\ LET res == SenderCountCheck(master_conn)
       IN AfterCheck("max_wal_senders", res, CheckNotPassed(res), "cu_return")

check_upstream_config ==
    \/ UpstreamCheckWalLevel
    \/ UpstreamCheckSlots
    \/ UpstreamCheckArchiveMode
    \/ UpstreamCheckHotStandby
    \/ UpstreamCheckSenders

\* do_check_upstream_config: the connection to the upstream server and
\* server_version_num = check_server_version(conn, "upstream server", false,
\* NULL).
CheckUpstreamConnect ==
    /\ action = CHECK_UPSTREAM_CONFIG /\ pc = "start"
    /\ LET n == NodeOfHost(runtime_options.host)
       IN IF ~up[n]
          THEN /\ Exit(ERR_DB_CON, "connection_failed")
               /\ UNCHANGED << master_conn, server_version_num >>
          ELSE /\ master_conn' = n
               /\ server_version_num' = check_server_version(n)
               /\ pc' = "cu_wal_level"
               /\ UNCHANGED << exit_code, log_msg >>
    /\ UNCHANGED << cluster, repl_nodes, schema_exists, stores, config, retval,
                    i, promote_sucess, standby_version_num, master_version_num,
                    effects, recovery_conf, pollHistory, discoveries, obs,
                    upstreamServer, replication_slots, dest_state, config_ok,
                    config_file_copy_required, master_files, clone_r,
                    clone_retval, checks, steps >>

\* config_ok == true is reported; main exits with SUCCESS either way.
CheckUpstreamReport ==
    /\ action = CHECK_UPSTREAM_CONFIG /\ pc = "cu_return"
    /\ Exit(SUCCESS, IF config_ok THEN "no_configuration_problems" ELSE "none")
    /\ UNCHANGED << cluster, repl_nodes, elsewhere, config, locals, effects,
                    recovery_conf, pollHistory, discoveries, obs >>

\* t_runtime_options of STANDBY CLONE and of the check.
ProvisionOptions(host, force, dest_dir, wal_keep_segments) ==
    [host |-> host, masterport |-> "", username |-> "", dbname |-> "postgres",
     force |-> force, wait_for_master |-> FALSE,
     min_recovery_apply_delay |-> "", keep_history |-> 0,
     dest_dir |-> dest_dir, wal_keep_segments |-> wal_keep_segments]

\* The settings an upstream server can have.
UpstreamSettings ==
    [wal_level : {"hot_standby", "archive"},
     max_replication_slots : 0 .. MaxSetting,
     wal_keep_segments : 0 .. MaxSetting,
     archive_mode : {"on", "off"},
     hot_standby : {"on", "off"},
     max_wal_senders : 0 .. MaxSetting]

\* One server, unregistered, and the locals as the command finds them.
InitOneServer ==
    /\ InitCommon
    /\ role = [n \in Nodes |-> "primary"]
    /\ \A n \in Nodes : n # 1 => up[n]
    /\ repl_nodes = << >>
    /\ schema_exists = FALSE
    /\ IdleStores
    /\ pgpassword = [set |-> FALSE, value |-> ""]

InitCheckUpstream ==
    /\ InitOneServer
    /\ action = CHECK_UPSTREAM_CONFIG
    /\ \E v \in MajorVersions : version = [n \in Nodes |-> v]
    /\ \E slots \in BOOLEAN :
          options = [node |-> 2, node_name |-> "node",
                     upstream_node |-> NO_UPSTREAM_NODE,
                     use_replication_slots |-> slots]
    /\ runtime_options = ProvisionOptions(PQhost(1), FALSE, "", 1)
    /\ settings \in UpstreamSettings
    /\ in_data_dir = [f \in { ConfigFiles[k] : k \in 1 .. 3 } |-> TRUE]
    /\ tablespaces = {}
    /\ replication_slots = {}
    /\ dest_state = "missing"
    /\ server_version_num = 0
    /\ config_ok = TRUE
    /\ config_file_copy_required = FALSE
    /\ master_files = [f \in { ConfigFiles[k] : k \in 1 .. 3 } |-> ""]
    /\ clone_r = 0
    /\ clone_retval = SUCCESS
    /\ checks = << >>
    /\ steps = << >>

NextCheckUpstream ==
    \/ CheckUpstreamConnect
    \/ check_upstream_config
    \/ CheckUpstreamReport
    \/ NodeDown(1)
    \/ NodeUp(1)

SpecCheckUpstream == InitCheckUpstream /\ [][NextCheckUpstream]_vars

\* --------------------------------------- claims: check_upstream_config
\* The checks that apply to the command's configuration, in order.
ApplicableChecks ==
    << "wal_level",
       IF ~options.use_replication_slots THEN "wal_keep_segments"
       ELSE IF server_version_num < 90400 THEN "slot_support"
       ELSE "max_replication_slots",
       "archive_mode", "hot_standby", "max_wal_senders" >>

\* C19: called non-strict, check_upstream_config makes every applicable
\* check whatever the earlier ones gave, and returns false exactly when at
\* least one check did not pass, a check whose query failed included.
C19_AggregateOfAllChecks ==
    (action = CHECK_UPSTREAM_CONFIG /\ pc = "cu_return") =>
        /\ [k \in 1 .. Len(checks) |-> checks[k].name] = ApplicableChecks
        /\ config_ok = (\A k \in 1 .. Len(checks) : checks[k].result = 1)

\* C20: with replication slots requested on a server that supports them,
\* the check of max_replication_slots passes for every value of at least 1
\* and fails only for 0; the check of max_wal_senders passes for every value
\* of at least 1.
C20_SlotCountAtLeastOne ==
    \A k \in 1 .. Len(checks) :
        /\ (checks[k].name = "max_replication_slots" /\ checks[k].result # -1) =>
              (checks[k].result = 1) = (settings.max_replication_slots >= 1)
        /\ (checks[k].name = "max_wal_senders" /\ checks[k].result # -1) =>
              (checks[k].result = 1) = (settings.max_wal_senders >= 1)

\* -------------------------------------------------------- STANDBY CLONE
\* What no step of STANDBY CLONE writes.
cloneFrame == << cluster, repl_nodes, schema_exists, stores, config, retval,
                 promote_sucess, standby_version_num, master_version_num,
                 effects, pollHistory, discoveries, obs, upstreamServer >>

\* primary_conn = establish_db_connection_by_params(keywords, values, true)
\* and server_version_num = check_server_version(primary_conn, "master",
\* true, NULL): both end the command when they fail.
CloneConnect ==
    /\ action = STANDBY_CLONE /\ pc = "start"
    /\ LET n == NodeOfHost(runtime_options.host)
       IN IF ~up[n]
          THEN /\ Exit(ERR_DB_CON, "connection_failed")
               /\ UNCHANGED << master_conn, server_version_num >>
          ELSE IF check_server_version(n) = -1
          THEN /\ Exit(ERR_BAD_CONFIG, "version_too_old")
               /\ master_conn' = n
               /\ UNCHANGED server_version_num
          ELSE /\ master_conn' = n
               /\ server_version_num' = check_server_version(n)
               /\ pc' = "cu_wal_level"
               /\ UNCHANGED << exit_code, log_msg >>
    /\ UNCHANGED << cloneFrame, i, recovery_conf, replication_slots,
                    dest_state, config_ok, config_file_copy_required,
                    master_files, clone_r, clone_retval, checks, steps >>

\* The version tablespace_mapping needs.
TablespaceMappingVersion == 90400

\* options.tablespace_dirs is not empty and the server is older than 9.4, or
\* the query for one old_dir fails or finds no tablespace at that location.
TablespaceMappingRejectedMut(n, dirs) == FALSE

TablespaceMappingRejected(n, dirs) ==
    /\ dirs # << >>
    /\ \/ get_server_version(n) < TablespaceMappingVersion
       \/ \E k \in 1 .. Len(dirs) : ~up[n] \/ dirs[k] \notin tablespaces

\* The checks of the tablespaces named by tablespace_mapping, on return of
\* check_upstream_config.
CloneCheckTablespaces ==
    /\ action = STANDBY_CLONE /\ pc = "cu_return"
    /\ IF TablespaceMappingRejected(master_conn, options.tablespace_dirs)
       THEN Exit(ERR_BAD_CONFIG, "tablespace_mapping")
       ELSE pc' = "sc_size" /\ UNCHANGED << exit_code, log_msg >>
    /\ UNCHANGED << cloneFrame, master_conn, i, recovery_conf,
                    replication_slots, dest_state, cloneLocals, checks, steps >>

\* get_cluster_size(primary_conn, cluster_size)
CloneClusterSize ==
    /\ action = STANDBY_CLONE /\ pc = "sc_size"
    /\ IF ~up[master_conn]
       THEN Exit(ERR_DB_QUERY, "cluster_size")
       ELSE pc' = "sc_settings" /\ UNCHANGED << exit_code, log_msg >>
    /\ UNCHANGED << cloneFrame, master_conn, i, recovery_conf,
                    replication_slots, dest_state, cloneLocals, checks, steps >>

\* The loop over the rows of the settings query: master_<file> is set to the
\* setting of a file whose in_data_dir is 'f', and stays empty otherwise.
\* The setting of a file is written as its name.
MasterFileOfMut(f, inside) == f

MasterFileOf(f, inside) == IF ~inside THEN f ELSE ""

\* The query of data_directory, config_file, hba_file and ident_file; a
\* user that is not a superuser gets fewer than 4 rows.
CloneReadSettings(ntuples) ==
    /\ action = STANDBY_CLONE /\ pc = "sc_settings"
    /\ IF ~up[master_conn]
       THEN /\ Exit(ERR_BAD_CONFIG, "settings_query")
            /\ UNCHANGED << i, config_file_copy_required, master_files >>
       ELSE IF ntuples # 4
       THEN /\ Exit(ERR_BAD_CONFIG, "not_superuser")
            /\ UNCHANGED << i, config_file_copy_required, master_files >>
       ELSE /\ master_files' =
                 [f \in DOMAIN master_files |-> MasterFileOf(f, in_data_dir[f])]
            /\ config_file_copy_required' =
                 (\E f \in DOMAIN master_files : master_files'[f] # "")
            /\ i' = ntuples
            /\ pc' = "sc_pg_dir"
            /\ UNCHANGED << exit_code, log_msg >>
    /\ UNCHANGED << cloneFrame, master_conn, recovery_conf, replication_slots,
                    dest_state, server_version_num, config_ok, clone_r,
                    clone_retval, checks, steps >>

\* stop_backup: if (r != 0) ... exit(retval).
BackupFailedMut(rr) == FALSE

BackupFailed(rr) == rr # 0

AfterStepMut(name, rr, code, next) ==
    /\ steps' = IF rr # 0 THEN << >>
                ELSE Append(steps, [step |-> name, ok |-> rr = 0])
    /\ clone_r' = rr
    /\ clone_retval' = IF rr # 0 THEN code ELSE clone_retval
    /\ IF BackupFailed(rr)
       THEN Exit(clone_retval', "backup_failed")
       ELSE pc' = next /\ UNCHANGED << exit_code, log_msg >>

\* What follows a step of the backup: its result is kept in r; a result
\* that is not 0 sets retval to code and goes to stop_backup.
AfterStep(name, rr, code, next) ==
    /\ steps' = Append(steps, [step |-> name, ok |-> rr = 0])
    /\ clone_r' = rr
    /\ clone_retval' = IF rr # 0 THEN code ELSE clone_retval
    /\ IF BackupFailed(rr)
       THEN Exit(clone_retval', "backup_failed")
       ELSE pc' = next /\ UNCHANGED << exit_code, log_msg >>

\* create_pg_dir(local_data_directory, runtime_options.force): a missing
\* directory is created, if the system lets it (mkdir_ok); an empty one is
\* used; an occupied one is used only with --force.
create_pg_dir(state, force, mkdir_ok) ==
    IF state = "missing" THEN mkdir_ok
    ELSE IF state = "empty" THEN TRUE
    ELSE force

\* r = ERR_BAD_CONFIG, which is not 0, when create_pg_dir fails.
CloneCreatePgDir(mkdir_ok) ==
    /\ action = STANDBY_CLONE /\ pc = "sc_pg_dir"
    /\ LET ok == create_pg_dir(dest_state, runtime_options.force, mkdir_ok)
       IN /\ dest_state' = IF ok THEN "ready" ELSE dest_state
          /\ AfterStep("create_pg_dir", IF ok THEN 0 ELSE 1, ERR_BAD_CONFIG,
                       "sc_basebackup")
    /\ UNCHANGED << cloneFrame, master_conn, i, recovery_conf,
                    replication_slots, server_version_num, config_ok,
                    config_file_copy_required, master_files, checks >>

\* The step that follows the copy of file k (0: the connectivity test, or
\* the snapshot): the copy of the next file whose master_<file> is not
\* empty, and the recovery file when there is none.
CopyPc == << "sc_copy_config_file", "sc_copy_hba_file", "sc_copy_ident_file" >>

NextCopy(k) ==
    LET later == { j \in k + 1 .. Len(ConfigFiles) :
                      master_files[ConfigFiles[j]] # "" }
    IN IF later = {} THEN "sc_recovery"
       ELSE CopyPc[CHOOSE j \in later : \A l \in later : j <= l]

\* r = run_basebackup(): the result of pg_basebackup, which cannot succeed
\* while the primary is down.
CloneBasebackup(res) ==
    /\ action = STANDBY_CLONE /\ pc = "sc_basebackup"
    /\ up[master_conn] \/ res # 0
    /\ dest_state' = IF res = 0 THEN "cluster" ELSE "partial"
    /\ AfterStep("pg_basebackup", res, ERR_BAD_BASEBACKUP,
                 IF config_file_copy_required THEN "sc_ssh" ELSE "sc_recovery")
    /\ UNCHANGED << cloneFrame, master_conn, i, recovery_conf,
                    replication_slots, server_version_num, config_ok,
                    config_file_copy_required, master_files, checks >>

\* r = test_ssh_connection(runtime_options.host, runtime_options.remote_user)
CloneTestSsh(res) ==
    /\ action = STANDBY_CLONE /\ pc = "sc_ssh"
    /\ AfterStep("test_ssh_connection", res, ERR_BAD_SSH, NextCopy(0))
    /\ UNCHANGED << cloneFrame, master_conn, i, recovery_conf,
                    replication_slots, dest_state, server_version_num,
                    config_ok, config_file_copy_required, master_files,
                    checks >>

\* r = copy_remote_files(host, remote_user, master_<file>, local_<file>)
CloneCopyFile(k, res) ==
    /\ action = STANDBY_CLONE /\ pc = CopyPc[k]
    /\ AfterStep(ConfigFiles[k], res, ERR_BAD_SSH, NextCopy(k))
    /\ UNCHANGED << cloneFrame, master_conn, i, recovery_conf,
                    replication_slots, dest_state, server_version_num,
                    config_ok, config_file_copy_required, master_files,
                    checks >>

\* if (options.use_replication_slots) before create_replication_slot
CloneCreatesSlotMut(opts) == TRUE

CloneCreatesSlot(opts) == opts.use_replication_slots

\* create_recovery_file(local_data_directory), whose result is not looked
\* at: whatever was written, the slot is created next, or the command ends
\* with retval.  written is as in FollowWriteRecovery.
CloneWriteRecovery(written) ==
    /\ action = STANDBY_CLONE /\ pc = "sc_recovery"
    /\ LET lines == RecoveryFileLines(runtime_options, options, pgpassword)
       IN /\ written \in 0 .. Len(lines) + 1
          /\ recovery_conf' =
                IF written = 0 THEN recovery_conf
                ELSE IF written <= Len(lines) THEN SubSeq(lines, 1, written - 1)
                ELSE lines
          /\ steps' = Append(steps, [step |-> "recovery.conf",
                                     ok |-> written > Len(lines)])
          /\ IF written >= 2 /\ PrimaryConninfoExits(pgpassword)
             THEN Exit(ERR_BAD_PASSWORD, "password_required")
             ELSE IF CloneCreatesSlot(options)
             THEN pc' = "sc_slot" /\ UNCHANGED << exit_code, log_msg >>
             ELSE Exit(clone_retval, "clone_done")
    /\ UNCHANGED << cloneFrame, master_conn, i, replication_slots, dest_state,
                    cloneLocals, checks >>

\* create_replication_slot(primary_conn, repmgr_slot_name): false when the
\* statement fails, as it does when the primary is down.
CloneCreateSlot(created) ==
    /\ action = STANDBY_CLONE /\ pc = "sc_slot"
    /\ up[master_conn] \/ ~created
    /\ steps' = Append(steps, [step |-> "create_replication_slot",
                               ok |-> created])
    /\ replication_slots' =
          IF created THEN replication_slots \cup {repmgr_slot_name(options)}
          ELSE replication_slots
    /\ IF ~created THEN Exit(ERR_DB_QUERY, "slot_not_created")
       ELSE Exit(clone_retval, "clone_done")
    /\ UNCHANGED << cloneFrame, master_conn, i, recovery_conf, dest_state,
                    cloneLocals, checks >>

do_standby_clone ==
    \/ CloneConnect
    \/ CloneCheckTablespaces
    \/ CloneClusterSize
    \/ \E ntuples \in {1, 4} : CloneReadSettings(ntuples)
    \/ \E mkdir_ok \in BOOLEAN : CloneCreatePgDir(mkdir_ok)
    \/ \E res \in {0, 1} : CloneBasebackup(res)
    \/ \E res \in {0, 1} : CloneTestSsh(res)
    \/ \E k \in 1 .. Len(ConfigFiles), res \in {0, 1} : CloneCopyFile(k, res)
    \/ \E w \in 0 .. Len(RecoveryFileLines(runtime_options, options, pgpassword)) + 1 :
          CloneWriteRecovery(w)
    \/ \E created \in BOOLEAN : CloneCreateSlot(created)

\* The settings of the primaries STANDBY CLONE is tried on: those of
\* UpstreamSettings that differ from a replication-capable configuration
\* in wal_level or max_replication_slots only.
CloneSettings ==
    { s \in UpstreamSettings :
         /\ s.archive_mode = "on" /\ s.hot_standby = "on"
         /\ s.max_wal_senders = MaxSetting
         /\ s.wal_keep_segments = MaxSetting }

\* The old_dir of the tablespace_mapping entries of repmgr.conf, and the
\* catalogs of the primary.
TablespaceMappings == { << >>, << "/ts1" >>, << "/ts1", "/ts2" >> }

TablespaceCatalogs == { {}, {"/ts1"}, {"/ts1", "/ts2"} }

InitClone ==
    /\ InitOneServer
    /\ action = STANDBY_CLONE
    /\ \E v \in MajorVersions : version = [n \in Nodes |-> v]
    /\ \E slots \in BOOLEAN, dirs \in TablespaceMappings :
          options = [node |-> 2, node_name |-> "node",
                     upstream_node |-> NO_UPSTREAM_NODE,
                     use_replication_slots |-> slots,
                     tablespace_dirs |-> dirs]
    /\ \E force \in BOOLEAN :
          runtime_options = ProvisionOptions(PQhost(1), force, "", 1)
    /\ settings \in CloneSettings
    /\ in_data_dir \in [{ ConfigFiles[k] : k \in 1 .. 3 } -> BOOLEAN]
    /\ tablespaces \in TablespaceCatalogs
    /\ replication_slots = {}
    /\ dest_state \in {"missing", "empty", "occupied"}
    /\ server_version_num = 0
    /\ config_ok = TRUE
    /\ config_file_copy_required = FALSE
    /\ master_files = [f \in { ConfigFiles[k] : k \in 1 .. 3 } |-> ""]
    /\ clone_r = 0
    /\ clone_retval = SUCCESS
    /\ checks = << >>
    /\ steps = << >>

NextClone ==
    \/ do_standby_clone
    \/ check_upstream_config
    \/ NodeDown(1)
    \/ NodeUp(1)

SpecClone == InitClone /\ [][NextClone]_vars

\* ------------------------------------------------ claims: STANDBY CLONE
\* The steps of STANDBY CLONE that change something outside the command,
\* in the order of the pipeline.
StepRank(name) ==
    IF name = "create_pg_dir" THEN 1
    ELSE IF name = "pg_basebackup" THEN 2
    ELSE IF name = "test_ssh_connection" THEN 3
    ELSE IF name = "config_file" THEN 4
    ELSE IF name = "hba_file" THEN 5
    ELSE IF name = "ident_file" THEN 6
    ELSE IF name = "recovery.conf" THEN 7
    ELSE 8

StepsStarted == { steps[k].step : k \in 1 .. Len(steps) }

StepSucceeded(name) ==
    \E k \in 1 .. Len(steps) : steps[k].step = name /\ steps[k].ok

FilesOutside == { f \in DOMAIN in_data_dir : ~in_data_dir[f] }

FilesCopied == StepsStarted \cap DOMAIN in_data_dir

\* C15: the steps of STANDBY CLONE are started in the order directory,
\* snapshot, copy of the configuration files, recovery configuration, slot;
\* no step is started after a step that failed; and the command exits with
\* SUCCESS only if every step it started succeeded.
C15_StepsInOrderStopAtFailure ==
    action = STANDBY_CLONE =>
        /\ \A j, k \in 1 .. Len(steps) :
              j < k => StepRank(steps[j].step) < StepRank(steps[k].step)
        /\ \A k \in 1 .. Len(steps) : ~steps[k].ok => k = Len(steps)
        /\ (pc = "done" /\ exit_code = SUCCESS) =>
              \A k \in 1 .. Len(steps) : steps[k].ok

\* C16: the copy of configuration files runs exactly when one of the three
\* files lies outside the data directory of the primary; the connectivity
\* test succeeds before any file is copied; exactly the files outside are
\* copied; and the first test or copy that fails ends the command with
\* ERR_BAD_SSH, no further file copied, no recovery configuration written
\* and no slot created.
C16_OutOfBandCopy ==
    action = STANDBY_CLONE =>
        /\ ("test_ssh_connection" \in StepsStarted) => FilesOutside # {}
        /\ (StepSucceeded("pg_basebackup") /\ FilesOutside # {}
              /\ pc \notin {"sc_ssh", "sc_basebackup"}) =>
              "test_ssh_connection" \in StepsStarted
        /\ FilesCopied # {} => StepSucceeded("test_ssh_connection")
        /\ FilesCopied \subseteq FilesOutside
        /\ ("recovery.conf" \in StepsStarted) =>
              /\ FilesCopied = FilesOutside
              /\ \A f \in FilesCopied : StepSucceeded(f)
        /\ \A k \in 1 .. Len(steps) :
              (StepRank(steps[k].step) \in 3 .. 6 /\ ~steps[k].ok) =>
                 /\ k = Len(steps)
                 /\ pc = "done" /\ exit_code = ERR_BAD_SSH
                 /\ recovery_conf = << >>
                 /\ replication_slots = {}

C16_Witness ==
    /\ action = STANDBY_CLONE /\ pc = "done" /\ exit_code = ERR_BAD_SSH
    /\ FilesOutside = {"config_file", "ident_file"}
    /\ FilesCopied = {"config_file", "ident_file"}
    /\ ~steps[Len(steps)].ok

MappingAcceptable ==
    /\ version[1] >= 90400
    /\ \A k \in 1 .. Len(options.tablespace_dirs) :
          options.tablespace_dirs[k] \in tablespaces

\* C18: with tablespace_mapping configured, the snapshot is started only if
\* the primary runs 9.4 or later and every old_dir is a location of its
\* tablespace catalog; if not, the command ends with an error and neither
\* the destination directory nor pg_basebackup has been touched.
C18_TablespaceMappingVerified ==
    (action = STANDBY_CLONE /\ options.tablespace_dirs # << >>) =>
        /\ ("pg_basebackup" \in StepsStarted) => MappingAcceptable
        /\ ~MappingAcceptable =>
              /\ steps = << >>
              /\ dest_state \in {"missing", "empty", "occupied"}
              /\ pc \notin {"sc_size", "sc_settings", "sc_pg_dir",
                            "sc_basebackup"}
              /\ pc = "done" => exit_code # SUCCESS

C18_Witness ==
    /\ action = STANDBY_CLONE /\ pc = "done"
    /\ options.tablespace_dirs = << "/ts1", "/ts2" >>
    /\ tablespaces = {"/ts1"}
    /\ version[1] = 90400
    /\ log_msg = "tablespace_mapping"
    /\ up[1]

\* ------------------------------------------- claims: check_server_version
\* The result of a call of check_server_version: the version of the server
\* if it is at least MIN_SUPPORTED_VERSION_NUM, or the sentinel -1.
ResultOfVersionCheck(v) == v = -1 \/ (v \in Versions /\ v >= MIN_SUPPORTED_VERSION_NUM)

\* C21: check_server_version returns the version of a supported server and,
\* called non-strict on a server below the minimum, returns -1 without
\* ending the command; a non-strict caller that gets -1 does not go on with
\* its operation: it makes no further check and does not end with SUCCESS.
C21_SentinelRefused ==
    /\ (action = CHECK_UPSTREAM_CONFIG /\ master_conn # NULL) =>
          /\ ResultOfVersionCheck(server_version_num)
          /\ server_version_num = -1 =>
                /\ checks = << >>
                /\ pc = "done" /\ exit_code # SUCCESS
    /\ (action \in {STANDBY_REGISTER, STANDBY_FOLLOW} /\ master_version_num # 0) =>
          /\ ResultOfVersionCheck(master_version_num)
          /\ master_version_num = -1 => (pc = "done" /\ exit_code # SUCCESS)

\* ------------------------------------------------- create_recovery_file
\* create_recovery_file on every combination of what it reads: STANDBY
\* CLONE after its snapshot, with each of host, port, user, node name and
\* apply delay empty or given, PGPASSWORD unset, empty or set, and
\* replication slots on or off.  conninfo_password is the password the
\* conninfo of repmgr.conf carries, if any.
RecoveryOptions ==
    { [ProvisionOptions(h, FALSE, "", 1) EXCEPT
          !.masterport = p, !.username = u, !.min_recovery_apply_delay = d] :
      h \in {"", PQhost(1)}, p \in {"", PQport(2)}, u \in {"", PQuser(1)},
      d \in {"", "5min"} }

Passwords ==
    { [set |-> FALSE, value |-> ""], [set |-> TRUE, value |-> ""],
      [set |-> TRUE, value |-> "secret"] }

InitRecoveryFile ==
    /\ role = [n \in Nodes |-> "primary"]
    /\ suspended = NoInvocation
    /\ up \in [Nodes -> BOOLEAN]
    /\ \A n \in Nodes : n # 1 => up[n]
    /\ version = [n \in Nodes |-> 90400]
    /\ repl_nodes = << >>
    /\ schema_exists = FALSE
    /\ IdleStores
    /\ action = STANDBY_CLONE
    /\ \E slots \in BOOLEAN, name \in {"", "node"}, cpw \in {"", "cfgpw"} :
          options = [node |-> 2, node_name |-> name,
                     upstream_node |-> NO_UPSTREAM_NODE,
                     use_replication_slots |-> slots,
                     tablespace_dirs |-> << >>,
                     conninfo_password |-> cpw]
    /\ runtime_options \in RecoveryOptions
    /\ pgpassword \in Passwords
    /\ pc = "sc_recovery"
    /\ master_conn = 1
    /\ retval = 1
    /\ i = 4
    /\ promote_sucess = FALSE
    /\ standby_version_num = 0
    /\ master_version_num = 0
    /\ exit_code = "running"
    /\ log_msg = "none"
    /\ effects = << >>
    /\ recovery_conf = << >>
    /\ nprobes = 0
    /\ seen = {}
    /\ late_probes = 0
    /\ discoveries = 0
    /\ obs = [node |-> 1, master |-> NULL, candidate |-> 1, primaries |-> {},
              checked |-> {}, schema |-> FALSE]
    /\ settings = [wal_level |-> "hot_standby",
                   max_replication_slots |-> MaxSetting,
                   wal_keep_segments |-> MaxSetting, archive_mode |-> "on",
                   hot_standby |-> "on", max_wal_senders |-> MaxSetting]
    /\ in_data_dir = [f \in { ConfigFiles[k] : k \in 1 .. 3 } |-> TRUE]
    /\ tablespaces = {}
    /\ replication_slots = {}
    /\ dest_state = "cluster"
    /\ server_version_num = 90400
    /\ config_ok = TRUE
    /\ config_file_copy_required = FALSE
    /\ master_files = [f \in { ConfigFiles[k] : k \in 1 .. 3 } |-> ""]
    /\ clone_r = 0
    /\ clone_retval = SUCCESS
    /\ checks = [k \in 1 .. 5 |-> [name |-> ApplicableChecks[k], result |-> 1]]
    /\ steps = << [step |-> "create_pg_dir", ok |-> TRUE],
                  [step |-> "pg_basebackup", ok |-> TRUE] >>

NextRecoveryFile ==
    \/ \E w \in 0 .. Len(RecoveryFileLines(runtime_options, options, pgpassword)) + 1 :
          CloneWriteRecovery(w)
    \/ \E created \in BOOLEAN : CloneCreateSlot(created)
    \/ NodeDown(1)
    \/ NodeUp(1)

SpecRecoveryFile == InitRecoveryFile /\ [][NextRecoveryFile]_vars

\* ------------------------------------------ claims: create_recovery_file
\* create_recovery_file returned true: every line was written.
RecoveryFileGenerated == StepSucceeded("recovery.conf")

LineKeys == [k \in 1 .. Len(recovery_conf) |-> recovery_conf[k].key]

LineOf(key) ==
    recovery_conf[CHOOSE k \in 1 .. Len(recovery_conf) : recovery_conf[k].key = key]

\* C22: the generated recovery configuration is standby_mode,
\* primary_conninfo, recovery_target_timeline = 'latest', then
\* min_recovery_apply_delay exactly when a delay was given, then
\* primary_slot_name exactly when replication slots are used, and nothing
\* else, whatever the other inputs are.
C22_RecoveryFileLines ==
    RecoveryFileGenerated =>
        /\ LineKeys =
              << "standby_mode", "primary_conninfo", "recovery_target_timeline" >>
              \o (IF runtime_options.min_recovery_apply_delay # ""
                  THEN << "min_recovery_apply_delay" >> ELSE << >>)
              \o (IF options.use_replication_slots
                  THEN << "primary_slot_name" >> ELSE << >>)
        /\ LineOf("standby_mode").value = "'on'"
        /\ LineOf("recovery_target_timeline").value = "'latest'"
        /\ runtime_options.min_recovery_apply_delay # "" =>
              LineOf("min_recovery_apply_delay").value =
                 runtime_options.min_recovery_apply_delay
        /\ options.use_replication_slots =>
              LineOf("primary_slot_name").fields = << "repmgr_slot_", options.node >>

C22_Witness ==
    /\ RecoveryFileGenerated
    /\ runtime_options.min_recovery_apply_delay # ""
    /\ options.use_replication_slots
    /\ Len(recovery_conf) = 5
    /\ runtime_options.host = "" /\ ~pgpassword.set

\* The fields of the primary_conninfo line, once that line is written.
ConninfoWritten == \E k \in 1 .. Len(recovery_conf) : recovery_conf[k].key = "primary_conninfo"

ConninfoFields == LineOf("primary_conninfo").fields

FieldKeys == [k \in 1 .. Len(ConninfoFields) |-> ConninfoFields[k][1]]

\* C23: in primary_conninfo each of port, host, user, password and
\* application_name appears exactly when its source value is not empty, in
\* that order.
C23_FieldsIffNonEmpty ==
    ConninfoWritten =>
        FieldKeys =
           (IF runtime_options.masterport # "" THEN << "port" >> ELSE << >>)
           \o (IF runtime_options.host # "" THEN << "host" >> ELSE << >>)
           \o (IF runtime_options.username # "" THEN << "user" >> ELSE << >>)
           \o (IF pgpassword.set /\ pgpassword.value # ""
               THEN << "password" >> ELSE << >>)
           \o (IF options.node_name # "" THEN << "application_name" >> ELSE << >>)

PasswordFields ==
    { k \in 1 .. Len(ConninfoFields) : ConninfoFields[k][1] = "password" }

WitnessOrder ==
    << "test_ssh_connection", "create_pg_dir", "pg_ctl init",
       "append postgresql.conf", "pg_ctl start", "createuser", "createdb",
       "get_pg_setting", "copy_remote_files", "pg_ctl reload", "insert",
       "create_schema", "copy_configuration", "alter_role" >>

WitnessRank(name) == CHOOSE k \in 1 .. Len(WitnessOrder) : WitnessOrder[k] = name

WitnessRecordInPlace ==
    \E k \in 1 .. Len(repl_nodes) :
        repl_nodes[k].id = Me /\ repl_nodes[k].type = "witness"

\* C25: WITNESS CREATE runs its steps in the order initialise, append the
\* configuration block, start, create role, create database, copy the hba
\* file, reload, register the witness, create the schema, copy the registry,
\* revoke superuser; after a step that failed no step is run and the
\* command ends with an error; and what the completed steps did stays: the
\* witness record stays in the primary's registry.
C25_WitnessStepsStopAtFailure ==
    action = WITNESS_CREATE =>
        /\ \A j, k \in 1 .. Len(steps) :
              j < k => WitnessRank(steps[j].step) < WitnessRank(steps[k].step)
        /\ \A k \in 1 .. Len(steps) :
              ~steps[k].ok =>
                 /\ k = Len(steps)
                 /\ pc = "done" /\ exit_code # SUCCESS
        /\ StepSucceeded("insert") => WitnessRecordInPlace

\* C27: WITNESS CREATE revokes superuser from the operating role exactly
\* when it created that role earlier in the run; the revocation comes after
\* the schema creation and the copy of the registry and is the last step;
\* a run that ends with SUCCESS has revoked superuser from a role it
\* created.
C27_SuperuserRevokedLast ==
    action = WITNESS_CREATE =>
        /\ ("alter_role" \in StepsStarted) =>
              /\ StepSucceeded("createuser")
              /\ StepSucceeded("create_schema")
              /\ StepSucceeded("copy_configuration")
              /\ steps[Len(steps)].step = "alter_role"
        /\ (pc = "done" /\ exit_code = SUCCESS) =>
              (StepSucceeded("createuser") <=> StepSucceeded("alter_role"))

C27_Witness ==
    /\ action = WITNESS_CREATE /\ pc = "done" /\ exit_code = SUCCESS
    /\ StepSucceeded("createuser") /\ StepSucceeded("alter_role")
    /\ Len(witness_nodes) >= 2

\* ------------------------------------------------ the copy of the registry
\* WITNESS CREATE on node 2 against a primary whose registry holds its own
\* record and up to two standbys, registered with or without a replication
\* slot, the second one possibly cascading from the first.  The standbys
\* are servers the command never connects to.
StandbyIds == << NumNodes + 1, NumNodes + 2 >>

StandbyRecords(id, upstreams) ==
    { NodeRecord(id, "standby", u, s) :
         u \in upstreams, s \in {NoSlot, << "repmgr_slot_", id >>} }

PrimaryRegistries ==
    LET p == NodeRecord(1, "primary", NULL, NoSlot)
    IN { << p >> }
       \cup { << p, a >> : a \in StandbyRecords(StandbyIds[1], {1}) }
       \cup { << p, a, b >> :
                 a \in StandbyRecords(StandbyIds[1], {1}),
                 b \in StandbyRecords(StandbyIds[2], {1, StandbyIds[1]}) }

InitWitnessCopy ==
    /\ role = [n \in Nodes |-> "primary"]
    /\ suspended = NoInvocation
    /\ up \in [Nodes -> BOOLEAN]
    /\ version = [n \in Nodes |-> 90400]
    /\ repl_nodes \in PrimaryRegistries
    /\ schema_exists = TRUE
    /\ IdleStores
    /\ IdleProvisioning
    /\ action = WITNESS_CREATE
    /\ \E slots \in BOOLEAN :
          options = [NodeOptions(2) EXCEPT !.use_replication_slots = slots]
    /\ \E u \in {"", "repmgr"} :
          runtime_options = RuntimeOptions(FALSE, PQhost(1), u,
                                           IF u = "" THEN "postgres" ELSE u, 0)
    /\ pgpassword = [set |-> FALSE, value |-> ""]
    /\ pc = "start"
    /\ master_conn = NULL
    /\ retval = 1
    /\ i = 0
    /\ promote_sucess = FALSE
    /\ standby_version_num = 0
    /\ master_version_num = 0
    /\ exit_code = "running"
    /\ log_msg = "none"
    /\ effects = << >>
    /\ recovery_conf = << >>
    /\ nprobes = 0
    /\ seen = {}
    /\ late_probes = 0
    /\ discoveries = 0
    /\ obs = [node |-> 1, master |-> NULL, candidate |-> 1, primaries |-> {},
              checked |-> {}, schema |-> FALSE]

NextWitnessCopy ==
    \/ WitnessCreateStep
    \/ NodeDown(1)
    \/ NodeUp(1)

SpecWitnessCopy == InitWitnessCopy /\ [][NextWitnessCopy]_vars

RecordsOf(reg) == { reg[k] : k \in 1 .. Len(reg) }

\* C26: after a successful WITNESS CREATE the witness's registry holds one
\* record for each record of the primary's registry, the witness's own
\* included, and no other, each agreeing with the primary's in id, type,
\* upstream_node_id and slot_name; and the copy does not fail on a valid
\* registry of the primary, in whatever order its rows are returned.
C26_WitnessMirrorsPrimary ==
    action = WITNESS_CREATE =>
        /\ (pc = "done" /\ exit_code = SUCCESS) =>
              /\ Len(witness_nodes) = Len(repl_nodes)
              /\ RecordsOf(witness_nodes) = RecordsOf(repl_nodes)
        /\ log_msg # "cannot_create_witness_record"

\* ------------------------------------------------ claims: CLUSTER CLEANUP
CleanupSucceeds == pc' = "done" /\ exit_code' = SUCCESS

\* C28: CLUSTER CLEANUP with keep_history = k > 0 deletes exactly the
\* samples that are at least k days old, and with no keep_history every
\* sample; a run that does not get to its DELETE or TRUNCATE, as when no
\* primary is found, removes nothing; and no step of it changes the node
\* registry.
C28_CleanupPrunes ==
    [][(action = CLUSTER_CLEANUP /\ pc # "done") =>
          /\ repl_nodes' = repl_nodes
          /\ CleanupSucceeds =>
                repl_monitor' =
                   IF runtime_options.keep_history > 0
                   THEN repl_monitor \
                        { a \in repl_monitor : a >= runtime_options.keep_history }
                   ELSE {}
          /\ ~CleanupSucceeds => repl_monitor' = repl_monitor]_vars

\* A run with keep_history = 1 has ended and kept the sample of today.
C28_Witness ==
    /\ action = CLUSTER_CLEANUP /\ pc = "done" /\ exit_code = SUCCESS
    /\ runtime_options.keep_history = 1
    /\ repl_monitor = {0}
    /\ Len(writes) = 1

\* ------------------------------------------------------------------ main
NO_ACTION == "NO_ACTION"
CLUSTER_SHOW == "CLUSTER_SHOW"

\* strcasecmp compares without regard to case: the words as it sees them.
Upper(w) ==
    IF w = "standby" THEN "STANDBY"
    ELSE IF w = "follow" THEN "FOLLOW"
    ELSE w

ServerModes == {"MASTER", "STANDBY", "WITNESS", "CLUSTER"}

\* The action main reads from server_mode and server_cmd; "" is a word
\* that is not on the command line.
ParseAction(server_mode, server_cmd) ==
    LET m == Upper(server_mode)
        c == Upper(server_cmd)
    IN IF server_cmd = "" THEN NO_ACTION
       ELSE IF m = "MASTER"
       THEN IF c = "REGISTER" THEN MASTER_REGISTER ELSE NO_ACTION
       ELSE IF m = "STANDBY"
       THEN IF c = "REGISTER" THEN STANDBY_REGISTER
            ELSE IF c = "CLONE" THEN STANDBY_CLONE
            ELSE IF c = "PROMOTE" THEN STANDBY_PROMOTE
            ELSE IF c = "FOLLOW" THEN STANDBY_FOLLOW
            ELSE NO_ACTION
       ELSE IF m = "CLUSTER"
       THEN IF c = "SHOW" THEN CLUSTER_SHOW
            ELSE IF c = "CLEANUP" THEN CLUSTER_CLEANUP
            ELSE NO_ACTION
       ELSE IF m = "WITNESS"
       THEN IF c = "CREATE" THEN WITNESS_CREATE ELSE NO_ACTION
       ELSE NO_ACTION

\* check_parameters_for_action(action): MASTER REGISTER, STANDBY REGISTER,
\* STANDBY PROMOTE and STANDBY FOLLOW take neither connection parameters
\* nor a destination directory; runtime_options.host == NULL is never true
\* of STANDBY CLONE, host being an array.
check_parameters_for_actionMut(a, ro) == TRUE

check_parameters_for_action(a, ro) ==
    IF a \in {MASTER_REGISTER, STANDBY_REGISTER, STANDBY_PROMOTE, STANDBY_FOLLOW}
    THEN /\ ~(ro.host # "" \/ ro.masterport # "" \/ ro.username # ""
              \/ ro.dbname # "")
         /\ ~(ro.dest_dir # "")
    ELSE TRUE

\* main from the first word after the options to the check of the words:
\* server_mode, server_cmd, the node of STANDBY CLONE and any word left.
MainParseAction ==
    /\ action = NO_ACTION /\ pc = "start"
    /\ LET argv == runtime_options.argv
           a == ParseAction(argv.mode, argv.cmd)
       IN IF argv.mode # "" /\ Upper(argv.mode) \notin ServerModes
          THEN Exit(ERR_BAD_CONFIG, "usage") /\ UNCHANGED config
          ELSE IF a = NO_ACTION
          THEN Exit(ERR_BAD_CONFIG, "usage") /\ UNCHANGED config
          ELSE IF a = STANDBY_CLONE /\ argv.node # "" /\ runtime_options.host # ""
          THEN /\ Exit(ERR_BAD_CONFIG, "conflicting_parameters")
               /\ action' = a
               /\ UNCHANGED << options, runtime_options, pgpassword >>
          ELSE IF a # STANDBY_CLONE /\ argv.node # ""
          THEN /\ Exit(ERR_BAD_CONFIG, "too_many_arguments")
               /\ action' = a
               /\ UNCHANGED << options, runtime_options, pgpassword >>
          ELSE /\ action' = a
               /\ runtime_options' =
                     IF a = STANDBY_CLONE /\ argv.node # ""
                     THEN [runtime_options EXCEPT !.host = argv.node]
                     ELSE runtime_options
               /\ pc' = "main_check"
               /\ UNCHANGED << options, pgpassword, exit_code, log_msg >>
    /\ UNCHANGED << cluster, repl_nodes, elsewhere, locals, effects,
                    recovery_conf, pollHistory, discoveries, obs >>

DEFAULT_DBNAME == "postgres"

\* if (!check_parameters_for_action(action)) exit(ERR_BAD_CONFIG); then
\* the default of dbname (PGDATABASE and PGUSER are not set), the
\* configuration file named by -f, which must exist (found), and the
\* switch over action.
MainCheckParameters(found) ==
    /\ pc = "main_check"
    /\ IF ~check_parameters_for_action(action, runtime_options)
       THEN Exit(ERR_BAD_CONFIG, "bad_parameters") /\ UNCHANGED runtime_options
       ELSE IF ~found
       THEN /\ Exit(ERR_BAD_CONFIG, "no_configuration_file")
            /\ runtime_options' =
                  [runtime_options EXCEPT
                      !.dbname = IF @ = "" THEN DEFAULT_DBNAME ELSE @]
       ELSE /\ runtime_options' =
                  [runtime_options EXCEPT
                      !.dbname = IF @ = "" THEN DEFAULT_DBNAME ELSE @]
            /\ pc' = "start"
            /\ UNCHANGED << exit_code, log_msg >>
    /\ UNCHANGED << cluster, repl_nodes, elsewhere, action, options,
                    pgpassword, locals, effects, recovery_conf, pollHistory,
                    discoveries, obs >>

\* The words and options of a command line: the options as the option loop
\* left them in runtime_options, and as argv the two words, the node and
\* the values of -h and -d as they were given.
ModeWords == {"", "MASTER", "STANDBY", "WITNESS", "CLUSTER", "standby", "NODE"}

CmdWords ==
    {"", "REGISTER", "CLONE", "PROMOTE", "FOLLOW", "SHOW", "CLEANUP", "CREATE",
     "follow", "START"}

MainCommandLines ==
    { [host |-> h, masterport |-> p, username |-> u, dbname |-> d,
       dest_dir |-> dir, force |-> FALSE, wait_for_master |-> FALSE,
       min_recovery_apply_delay |-> "", keep_history |-> 0,
       argv |-> [mode |-> m, cmd |-> c, node |-> x, host |-> h, dbname |-> d]] :
      h \in {"", PQhost(1)}, p \in {"", PQport(1)}, u \in {"", PQuser(1)},
      d \in {"", "repmgr"}, dir \in {"", "/dest"},
      m \in ModeWords, c \in CmdWords, x \in {"", PQhost(1)} }

\* main up to its switch, and the first step of the four commands that
\* take no connection parameter; the commands are followed from there by
\* the specifications of their own.
InitMain ==
    /\ InitCommon
    /\ role = [n \in Nodes |-> IF n = 1 THEN "primary" ELSE "standby"]
    /\ repl_nodes = InitRegistry(Nodes)
    /\ schema_exists = TRUE
    /\ IdleStores
    /\ IdleProvisioning
    /\ version = [n \in Nodes |-> 90400]
    /\ pgpassword = [set |-> FALSE, value |-> ""]
    /\ action = NO_ACTION
    /\ \E n \in Nodes : options = NodeOptions(n)
    /\ runtime_options \in MainCommandLines
    /\ runtime_options.argv.mode = "" => runtime_options.argv.cmd = ""
    /\ runtime_options.argv.cmd = "" => runtime_options.argv.node = ""

NextMain ==
    \/ MainParseAction
    \/ \E found \in BOOLEAN : MainCheckParameters(found)
    \/ MasterRegisterConnect
    \/ StandbyRegisterConnect
    \/ PromoteConnect
    \/ FollowConnect

SpecMain == InitMain /\ [][NextMain]_vars

\* ------------------------------------------------------------ claims: main
\* The pairs of words of the grammar and their actions.
Grammar ==
    { << "MASTER", "REGISTER", MASTER_REGISTER >>,
      << "STANDBY", "REGISTER", STANDBY_REGISTER >>,
      << "STANDBY", "CLONE", STANDBY_CLONE >>,
      << "STANDBY", "PROMOTE", STANDBY_PROMOTE >>,
      << "STANDBY", "FOLLOW", STANDBY_FOLLOW >>,
      << "WITNESS", "CREATE", WITNESS_CREATE >>,
      << "CLUSTER", "SHOW", CLUSTER_SHOW >>,
      << "CLUSTER", "CLEANUP", CLUSTER_CLEANUP >> }

CommandWords ==
    << Upper(runtime_options.argv.mode), Upper(runtime_options.argv.cmd) >>

\* The command line names one of the four commands and sets a connection
\* parameter or a destination directory.
ParametersNotAllowed ==
    /\ CommandWords \in { << "MASTER", "REGISTER" >>, << "STANDBY", "REGISTER" >>,
                          << "STANDBY", "PROMOTE" >>, << "STANDBY", "FOLLOW" >> }
    /\ \/ runtime_options.argv.host # "" \/ runtime_options.masterport # ""
       \/ runtime_options.username # "" \/ runtime_options.argv.dbname # ""
       \/ runtime_options.dest_dir # ""

\* main has passed control to the function of the action.
Dispatched ==
    /\ action # NO_ACTION
    /\ pc # "main_check"
    /\ pc = "done" =>
          log_msg \notin {"usage", "conflicting_parameters", "too_many_arguments",
                          "bad_parameters", "no_configuration_file"}

RequiredOperationFailed ==
    \/ log_msg = "cannot_create_function"
    \/ \E k \in DOMAIN steps : ~steps[k].ok

\* C30: no command ends with the success status after one of its required
\* database operations, file writes or external tools failed.
C30_NoSuccessAfterFailure ==
    (pc = "done" /\ exit_code = SUCCESS) => ~RequiredOperationFailed

\* ------------------------------------------------ claims: locating the primary
\* The place in the registry of the record of node id.
RegistryIndex(id) == CHOOSE k \in 1 .. Len(repl_nodes) : repl_nodes[k].id = id

SlotNameOfItsNode(rec) ==
    IF rec.type = "standby"
    THEN rec.slot_name \in {NoSlot, << "repmgr_slot_", rec.id >>}
    ELSE rec.slot_name = NoSlot

\* C32: in the primary's registry and in a witness's mirror of it, a record
\* has a slot_name only if it is a standby's, and the slot_name is then the
\* slot name of the record's own node; the records of primaries and
\* witnesses have none.
C32_SlotNameOfStandbyOnly ==
    \A rec \in RecordsOf(repl_nodes) \cup RecordsOf(witness_nodes) :
        SlotNameOfItsNode(rec)

\* ------------------------------------------------ two invocations at once
\* What one invocation of the program owns: its configuration, its place
\* in the code, its locals and what it has logged and done.
Running ==
    [options |-> options, pc |-> pc, master_conn |-> master_conn,
     retval |-> retval, i |-> i, promote_sucess |-> promote_sucess,
     standby_version_num |-> standby_version_num,
     master_version_num |-> master_version_num, exit_code |-> exit_code,
     log_msg |-> log_msg, effects |-> effects, nprobes |-> nprobes,
     seen |-> seen, late_probes |-> late_probes, obs |-> obs]

\* A new invocation on node n, as main hands it to the command.
StartedOn(n) ==
    [options |-> NodeOptions(n), pc |-> "start", master_conn |-> NULL,
     retval |-> 1, i |-> 0, promote_sucess |-> FALSE,
     standby_version_num |-> 0, master_version_num |-> 0,
     exit_code |-> "running", log_msg |-> "none", effects |-> << >>,
     nprobes |-> 0, seen |-> {}, late_probes |-> 0,
     obs |-> [node |-> 1, master |-> NULL, candidate |-> 1, primaries |-> {},
              checked |-> {}, schema |-> FALSE]]

\* The operating system runs the other invocation: the two are separate
\* processes on separate hosts and share only the servers and the registry.
Switch ==
    /\ suspended # NoInvocation
    /\ suspended' = Running
    /\ options' = suspended.options
    /\ pc' = suspended.pc
    /\ master_conn' = suspended.master_conn
    /\ retval' = suspended.retval
    /\ i' = suspended.i
    /\ promote_sucess' = suspended.promote_sucess
    /\ standby_version_num' = suspended.standby_version_num
    /\ master_version_num' = suspended.master_version_num
    /\ exit_code' = suspended.exit_code
    /\ log_msg' = suspended.log_msg
    /\ effects' = suspended.effects
    /\ nprobes' = suspended.nprobes
    /\ seen' = suspended.seen
    /\ late_probes' = suspended.late_probes
    /\ obs' = suspended.obs
    /\ UNCHANGED << role, up, version, repl_nodes, elsewhere, action,
                    runtime_options, pgpassword, recovery_conf, discoveries >>

\* Two invocations of STANDBY PROMOTE on two registered standbys, the
\* primary they followed being gone.
InitPromoteRace ==
    /\ role = [n \in Nodes |-> "standby"]
    /\ up \in [Nodes -> BOOLEAN]
    /\ version = [n \in Nodes |-> 90400]
    /\ repl_nodes = InitRegistry(Nodes)
    /\ schema_exists = TRUE
    /\ IdleStores
    /\ IdleProvisioning
    /\ action = STANDBY_PROMOTE
    /\ runtime_options = NoConnParams(FALSE, FALSE)
    /\ pgpassword = [set |-> FALSE, value |-> ""]
    /\ recovery_conf = << >>
    /\ discoveries = 0
    /\ \E n, m \in Nodes :
          /\ n # m
          /\ suspended = StartedOn(m)
          /\ options = StartedOn(n).options
          /\ pc = StartedOn(n).pc
          /\ master_conn = StartedOn(n).master_conn
          /\ retval = StartedOn(n).retval
          /\ i = StartedOn(n).i
          /\ promote_sucess = StartedOn(n).promote_sucess
          /\ standby_version_num = StartedOn(n).standby_version_num
          /\ master_version_num = StartedOn(n).master_version_num
          /\ exit_code = StartedOn(n).exit_code
          /\ log_msg = StartedOn(n).log_msg
          /\ effects = StartedOn(n).effects
          /\ nprobes = StartedOn(n).nprobes
          /\ seen = StartedOn(n).seen
          /\ late_probes = StartedOn(n).late_probes
          /\ obs = StartedOn(n).obs

\* A server leaves recovery only when an invocation has run "pg_ctl
\* promote" on it.
NextPromoteRace ==
    \/ PromoteConnect
    \/ PromoteCheckStandby
    \/ PromoteCheckMaster
    \/ PromoteGetDataDir
    \/ \E r \in {0, 1} : PromotePgCtl(r)
    \/ PromoteReconnect
    \/ PromotePoll
    \/ PromoteReport
    \/ Switch
    \/ \E n \in Nodes : NodeDown(n)
    \/ \E n \in Nodes : NodeUp(n)
    \/ ServerPromoted(Me)

SpecPromoteRace == InitPromoteRace /\ [][NextPromoteRace]_vars

\* ------------------------------------------------ claims: racing promotions
\* The invocation inv has invoked the promote action.
InvokedPromote(inv) ==
    \E k \in 1 .. Len(inv.effects) : inv.effects[k] = "promote"

\* C33: nothing but its own check, made before and apart from the promote
\* action, stands between an invocation of STANDBY PROMOTE and the promote
\* action: each of two interleaved invocations invokes it as soon as its
\* own lookup found no registered node reporting primary, whatever the
\* other has done since, so that both may invoke it and two nodes report
\* primary.
C33_ChecksDoNotExcludeEachOther ==
    \A inv \in {Running, suspended} :
        /\ InvokedPromote(inv) =>
              /\ inv.obs.checked = {"node", "master"}
              /\ inv.obs.node = 1
              /\ inv.obs.primaries = {}
        /\ role[inv.options.node] = "primary" => InvokedPromote(inv)

\* Both invocations passed their checks and invoked the promote action,
\* and both nodes report primary.
C33_Witness ==
    /\ InvokedPromote(Running) /\ InvokedPromote(suspended)
    /\ Me # suspended.options.node
    /\ \A n \in {Me, suspended.options.node} : is_standby(n) = 0
    /\ pc = "done" /\ exit_code = SUCCESS
    /\ suspended.pc = "done" /\ suspended.exit_code = SUCCESS

\* ------------------------------------ claims: STANDBY CLONE preconditions
\* STANDBY CLONE has come to the destination directory: create_pg_dir has
\* been called, or something was written.
CloneTouchedLocalFiles ==
    steps # << >> \/ dest_state = "ready" \/ recovery_conf # << >>

\* Every check that applies was made and passed.
EveryCheckPassed ==
    /\ [k \in 1 .. Len(checks) |-> checks[k].name] = ApplicableChecks
    /\ \A k \in 1 .. Len(checks) : checks[k].result = 1

\* C34: STANDBY CLONE comes to the destination directory only if the
\* primary's version is at least the minimum supported one and every check
\* of the upstream configuration passed; a check that did not pass ends the
\* command with an error before create_pg_dir is called.
C34_NothingLocalBeforeChecks ==
    action = STANDBY_CLONE =>
        /\ CloneTouchedLocalFiles =>
              /\ server_version_num >= MIN_SUPPORTED_VERSION_NUM
              /\ EveryCheckPassed
        /\ (\E k \in 1 .. Len(checks) : checks[k].result # 1) =>
              /\ pc = "done" /\ exit_code # SUCCESS
              /\ ~CloneTouchedLocalFiles

\* ------------------------------------------ claims: no cleanup by the clone
\* The destination directory was accepted: the snapshot has started or is
\* about to.
SnapshotStage == action = STANDBY_CLONE /\ StepSucceeded("create_pg_dir")

\* C35: once the snapshot stage is reached, a step that ends STANDBY CLONE
\* with an error, and whatever happens after it, removes nothing: the
\* destination directory stays as it was, or as the failed snapshot left
\* it; the record of the snapshot and of the files copied stays, and so do
\* the lines written to recovery.conf and the slots created.
C35_NoCleanupAfterFailure ==
    [][(SnapshotStage /\ pc' = "done" /\ exit_code' # SUCCESS) =>
          /\ dest_state' \in {dest_state, "partial"}
          /\ pc = "done" => dest_state' = dest_state
          /\ Len(steps') >= Len(steps)
          /\ SubSeq(steps', 1, Len(steps)) = steps
          /\ Len(recovery_conf') >= Len(recovery_conf)
          /\ SubSeq(recovery_conf', 1, Len(recovery_conf)) = recovery_conf
          /\ replication_slots' = replication_slots]_vars

\* The copy of a configuration file failed after the snapshot and another
\* file had been written.
C35_Witness ==
    /\ action = STANDBY_CLONE /\ pc = "done" /\ exit_code = ERR_BAD_SSH
    /\ dest_state = "cluster"
    /\ StepSucceeded("pg_basebackup")
    /\ \E f \in FilesCopied : StepSucceeded(f)
    /\ ~steps[Len(steps)].ok

\* ------------------------------------------ claims: what registers a node
\* The command has inserted a record into repl_nodes.
RecordInserted ==
    \E k \in 1 .. Len(writes) :
        writes[k].store = "repl_nodes" /\ writes[k].op = "insert"

\* The command found one of its preconditions not met: the node did not
\* report what it must, the schema is missing, or no primary was located.
RegisterPreconditionFailed ==
    \/ /\ action = MASTER_REGISTER
       /\ "node" \in obs.checked /\ obs.node # 0
    \/ /\ action = STANDBY_REGISTER
       /\ \/ "node" \in obs.checked /\ obs.node # 1
          \/ log_msg = "no_schema"
          \/ "master" \in obs.checked /\ obs.master = NULL

\* C36: MASTER REGISTER inserts its record only after the node reported
\* primary, STANDBY REGISTER only after the node reported standby, the
\* schema was found and a primary was located; a precondition that is not
\* met, an unreachable node included, ends the command with an error
\* before it has written anything.
C36_RegisterPreconditions ==
    /\ (action = MASTER_REGISTER /\ RecordInserted) =>
          /\ "node" \in obs.checked /\ obs.node = 0
          /\ repl_nodes[Len(repl_nodes)].type = "primary"
    /\ (action = STANDBY_REGISTER /\ RecordInserted) =>
          /\ "node" \in obs.checked /\ obs.node = 1
          /\ schema_exists
          /\ "master" \in obs.checked /\ obs.master # NULL
          /\ repl_nodes[Len(repl_nodes)].type = "standby"
    /\ RegisterPreconditionFailed =>
          /\ pc = "done" /\ exit_code = ERR_BAD_CONFIG
          /\ writes = << >>

\* STANDBY REGISTER ended on a node that could not be reached for the
\* query, with a registry that holds records.
C36_Witness ==
    /\ action = STANDBY_REGISTER /\ pc = "done"
    /\ "node" \in obs.checked /\ obs.node = -1
    /\ exit_code = ERR_BAD_CONFIG
    /\ repl_nodes # << >>

\* ------------------------------------- claims: a failed registration
\* The statements of the command that were run on repl_nodes.
RegistryWrites ==
    { k \in 1 .. Len(writes) : writes[k].store = "repl_nodes" }

\* C37: a MASTER REGISTER or STANDBY REGISTER that ends with an error has
\* changed no row of repl_nodes; with --force in particular, the node's
\* earlier record is still there when the command was refused because of
\* another primary or when its INSERT failed.
C37_FailedRegisterChangesNothing ==
    (action \in {MASTER_REGISTER, STANDBY_REGISTER}
        /\ pc = "done" /\ exit_code # SUCCESS) =>
        \A k \in RegistryWrites : writes[k].op = "delete_none"

\* ------------------------------------- the commands run on a standby
\* STANDBY PROMOTE, STANDBY FOLLOW and STANDBY CLONE, each from the states
\* its own specification starts in.
InitStandbyCommands == InitPromote \/ InitFollow \/ InitClone

NextStandbyCommands ==
    \/ PromoteStep
    \/ FollowStep
    \/ do_standby_clone
    \/ check_upstream_config
    \/ \E n \in Nodes : NodeDown(n)
    \/ \E n \in Nodes : NodeUp(n)
    \/ \E n \in Nodes : ServerPromoted(n)

SpecStandbyCommands == InitStandbyCommands /\ [][NextStandbyCommands]_vars

\* STANDBY PROMOTE has ended with the node confirmed as primary.
PromotionConfirmed ==
    action = STANDBY_PROMOTE /\ pc = "done" /\ promote_sucess

C38_Inv ==
    /\ writes = << >>
    /\ witness_nodes = << >>
    /\ PromotionConfirmed =>
          \A k \in 1 .. Len(repl_nodes) :
              repl_nodes[k].id = Me =>
                  /\ repl_nodes[k].type = "standby"
                  /\ repl_nodes[k].upstream_node_id = NULL

\* C38: no step of STANDBY PROMOTE, STANDBY FOLLOW or STANDBY CLONE, with
\* whatever outcome, changes a record of the node registry or runs a
\* statement on it; after a confirmed promotion the record of the promoted
\* node is the standby's record it was, and the other records, that of the
\* failed primary among them, are as they were.
C38_StandbyCommandsLeaveRegistry ==
    /\ [](C38_Inv)
    /\ [][repl_nodes' = repl_nodes]_vars

\* A promotion was confirmed on a registered standby while the registry
\* holds the record of a primary that is down.
C38_Witness ==
    /\ PromotionConfirmed
    /\ is_standby(Me) = 0
    /\ \E k \in 1 .. Len(repl_nodes) :
          repl_nodes[k].id = Me /\ repl_nodes[k].type = "standby"
    /\ \E k \in 1 .. Len(repl_nodes) :
          /\ repl_nodes[k].id # Me /\ repl_nodes[k].type = "primary"
          /\ ~up[repl_nodes[k].id]

\* --------------------------------- claims: the report of the upstream check
\* C39: the check of the upstream configuration reports that it found no
\* configuration problems only if the server's version is at least the
\* minimum supported one and every check that applies was made and passed.
C39_ProblemFreeOnlyIfSupported ==
    (action = CHECK_UPSTREAM_CONFIG /\ log_msg = "no_configuration_problems") =>
        /\ server_version_num >= MIN_SUPPORTED_VERSION_NUM
        /\ EveryCheckPassed

====
